---- MODULE Spec2Model ----
(***************************************************************************)
(* Model of the stack-sampling tracer of cap-telemetry.                    *)
(*                                                                         *)
(*   Spec      the live sampler CAPStackSamplingTracer (cap-tracing.ts):   *)
(*             start/stop, the async hooks, the sampling tick and the      *)
(*             per-context span bookkeeping.                               *)
(*   SpecDiff  the pure stack differ: convertSamplesToTrace of             *)
(*             stack-to-trace.js run over a drawn list of samples, and     *)
(*             CAPStackSamplingTracer.convertSamplesToEvents applied to    *)
(*             the same pair of stacks.                                    *)
(*   SpecExample  the same differs run over Example 1 of stack-to-trace.js *)
(*             and its variations.                                         *)
(*   SpecBatch processProfileToSpans (srv/tracer.ts): the traversal of the *)
(*             call graph, the reconstruction of the samples and the span  *)
(*             loop, run over a drawn CPU profile.                         *)
(*   SpecWrap  the function wrappers (wrapHandler, traceFunction, Traced,  *)
(*             traceAsyncFn, traceAsyncFunction, Trace): calls of a        *)
(*             wrapped function that returns or throws.                    *)
(***************************************************************************)
EXTENDS Integers, Sequences, FiniteSets, TLC

\* ---------------------------------------------------------------- bounds
\* Number of sampling ticks (milliseconds of the model clock) explored.
MaxTime == 4
\* Longest stack drawn for the pure differ.
MaxLen == 3
\* Longest sample list drawn for convertSamplesToTrace.
MaxSamples == 2
\* Longest list of profile ticks drawn for processProfileToSpans.
MaxTicks == 2
\* Depth of recursion at which the host reports a stack overflow.
StackLimit == 5
\* Calls of a wrapped function that are followed.
MaxCalls == 2
\* Handlers a service registers.
MaxHandlers == 2
\* Calls of initCAPTracing / getCAPTracing.
MaxInits == 4
\* The largest millisecond value converted.
MaxMs == 2100

\* ---------------------------------------------------------------- inputs
\* Frame names as extractFunctionName returns them.
Names == {"A", "B"}
\* A frame name matched by the default exclude pattern /^process\./.
ExcludedName == "process.processTicksAndRejections"
\* A frame name matched by the default exclude pattern /^Promise\./.
PromiseName == "Promise.all"
\* Async ids the host reports through the hooks.
AsyncIds == {1, 2}
\* Stacks the host can present to one tick: the names extracted from the
\* lines of error.stack after slice(2), in the order of the lines, which is
\* innermost frame first.
RawStacks ==
  { <<"A">>, <<"A", PromiseName, "B">>, <<"B", "B">>,
    <<ExcludedName>>, <<ExcludedName, "A">> }
\* Timer handles setInterval can return.
TimerIds == {1, 2, 3}

NoTimer == 0
NoTime == -1
\* No parent span, and the parentSpan argument of processProfileToSpans.
NoSpan == 0
GivenParent == -1
\* The JavaScript values NaN and undefined where a number is expected.
NaN == -2
Undefined == -3

VARIABLES
  enabled,          \* CAPStackSamplingTracer.enabled
  hookEnabled,      \* whether asyncHook is enabled
  interval,         \* CAPStackSamplingTracer.interval (NoTimer for null)
  timers,           \* interval timers active in the host
  samples,          \* CAPStackSamplingTracer.samples: asyncId -> Sample[]
  activeSpans,      \* CAPStackSamplingTracer.activeSpans: ordered map
  currentAsyncId,   \* CAPStackSamplingTracer.currentAsyncId
  now,              \* the host clock, Date.now()
  spanLog,          \* every span the tracer has started, in start order
  endLog,           \* span ids in the order span.end() was called
  startedAgain,     \* start() has been called while the sampler was running
  tSamples,         \* convertSamplesToTrace: the argument
  tIdx,             \* convertSamplesToTrace: samples consumed by the loop
  tPrevStack,       \* convertSamplesToTrace: prevStack
  tEvents,          \* convertSamplesToTrace: events
  dIdx,             \* pairs of tSamples handed to convertSamplesToEvents
  dEvents,          \* what convertSamplesToEvents returned for the last pair
  profile,          \* processProfileToSpans: the profile argument
  bPc,              \* processProfileToSpans: where the call is
  nodeMap,          \* processProfileToSpans: nodeMap
  parentMap,        \* processProfileToSpans: parentMap
  callStack,        \* the activations of traverse, outermost first
  bSamples,         \* processProfileToSpans: samples
  currentTime,      \* processProfileToSpans: currentTime
  bIdx,             \* samples consumed by the span loop
  bActive,          \* processProfileToSpans: activeSpans (depth -> span)
  bPrevStack,       \* processProfileToSpans: prevStack
  firstRun,         \* what an earlier call on the same profile produced
  wrapper,          \* the wrapper the function under call was wrapped with
  wPc,              \* where the current call of the wrapped function is
  wCall,            \* the current call: the function's kind and outcome
  wLog,             \* the spans the wrapper has started, in start order
  wReturned,        \* per finished call, what the caller received
  host,             \* the host's event loop: which callback runs, which
                    \* resources exist, whether the process is alive
  service,          \* a CAP service: its handlers and their invocations
  tracingManager,   \* the module variable tracingManager of cap-tracing.ts
  mgrLog,           \* calls of initCAPTracing / getCAPTracing, with results
  hrCall            \* a call of millisecondsToHrTime: argument and result

liveVars == <<enabled, hookEnabled, interval, timers, samples, activeSpans,
              currentAsyncId, now, spanLog, endLog, startedAgain>>
diffVars == <<tSamples, tIdx, tPrevStack, tEvents, dIdx, dEvents>>
batchVars == <<profile, bPc, nodeMap, parentMap, callStack, bSamples,
               currentTime, bIdx, bActive, bPrevStack, firstRun>>
vars == <<enabled, hookEnabled, interval, timers, samples, activeSpans,
          currentAsyncId, now, spanLog, endLog, startedAgain,
          tSamples, tIdx, tPrevStack, tEvents, dIdx, dEvents,
          profile, bPc, nodeMap, parentMap, callStack, bSamples,
          currentTime, bIdx, bActive, bPrevStack, firstRun,
          wrapper, wPc, wCall, wLog, wReturned, host, service,
          tracingManager, mgrLog, hrCall>>
appVars == <<service, tracingManager, mgrLog, hrCall>>
hostVars == <<host, service, tracingManager, mgrLog, hrCall>>
wrapVars == <<wrapper, wPc, wCall, wLog, wReturned>>

\* ------------------------------------------------- insertion-ordered Map
\* A JavaScript Map: entries in insertion order, keys unique.
MapHas(m, k) == \E i \in 1..Len(m) : m[i].key = k

MapIdx(m, k) == CHOOSE i \in 1..Len(m) : m[i].key = k

MapGet(m, k) == m[MapIdx(m, k)].val

MapSet(m, k, v) ==
  IF MapHas(m, k)
    THEN [m EXCEPT ![MapIdx(m, k)] = [key |-> k, val |-> v]]
    ELSE Append(m, [key |-> k, val |-> v])

MapDelete(m, k) ==
  LET keep(e) == e.key # k IN SelectSeq(m, keep)

MapKeys(m) == [i \in 1..Len(m) |-> m[i].key]

MapVals(m) == [i \in 1..Len(m) |-> m[i].val]

\* ------------------------------------------------------------ the tracer
\* tracer.startSpan(name, {startTime}): a new span, not ended.  No context
\* is passed, and the timer callback runs with no active span, so the span
\* has no parent.  ctx and depth record where the sampler opened it; the
\* program does not read them.
NewSpan(name, ts, asyncId, depth) ==
  [name |-> name, start |-> ts, end |-> NoTime, ends |-> 0,
   ctx |-> asyncId, depth |-> depth, parent |-> NoSpan]

\* span.end(ts): the first call sets the end time, later calls only count.
EndSpan(log, id, ts) ==
  [log EXCEPT ![id] = [@ EXCEPT !.end = IF log[id].ends = 0 THEN ts ELSE @,
                                !.ends = @ + 1]]

\* ------------------------------------------------------- the stack differ
\* commonLenFrom with the loop stopping one frame short of prevStack's end.
RECURSIVE commonLenShort(_, _, _)
commonLenShort(prevStack, currStack, commonLen) ==
  IF /\ commonLen + 1 < Len(prevStack)
     /\ commonLen < Len(currStack)
     /\ prevStack[commonLen + 1] = currStack[commonLen + 1]
    THEN commonLenShort(prevStack, currStack, commonLen + 1)
    ELSE commonLen

\* The while loop that finds the common prefix, entered with commonLen.
RECURSIVE commonLenFrom(_, _, _)
commonLenFrom(prevStack, currStack, commonLen) ==
  IF /\ commonLen < Len(prevStack)
     /\ commonLen < Len(currStack)
     /\ prevStack[commonLen + 1] = currStack[commonLen + 1]
    THEN commonLenFrom(prevStack, currStack, commonLen + 1)
    ELSE commonLen

\* EndEvents with the loop running upwards from commonLen.
EndEventsAscending(prevStack, commonLen, currentTs) ==
  [k \in 1..(Len(prevStack) - commonLen) |->
     [kind |-> "END", ts |-> currentTs, name |-> prevStack[commonLen + k]]]

\* The END loop: i from prevStack.length - 1 down to commonLen.
EndEvents(prevStack, commonLen, currentTs) ==
  [k \in 1..(Len(prevStack) - commonLen) |->
     [kind |-> "END", ts |-> currentTs,
      name |-> prevStack[Len(prevStack) - k + 1]]]

\* StartEvents with the loop entered at 0 instead of commonLen.
StartEventsFromZero(currStack, commonLen, currentTs) ==
  [k \in 1..Len(currStack) |->
     [kind |-> "START", ts |-> currentTs, name |-> currStack[k]]]

\* The START loop: i from commonLen up to currStack.length - 1.
StartEvents(currStack, commonLen, currentTs) ==
  [k \in 1..(Len(currStack) - commonLen) |->
     [kind |-> "START", ts |-> currentTs, name |-> currStack[commonLen + k]]]

convertSamplesToEvents(prevStack, currStack, currentTs) ==
  LET commonLen == commonLenFrom(prevStack, currStack, 0)
  IN  EndEvents(prevStack, commonLen, currentTs)
        \o StartEvents(currStack, commonLen, currentTs)

\* The loop index i (0-based stack depth) each event was pushed at.
EventDepths(prevStack, currStack) ==
  LET commonLen == commonLenFrom(prevStack, currStack, 0)
  IN  [k \in 1..(Len(prevStack) - commonLen) |-> Len(prevStack) - k]
        \o [k \in 1..(Len(currStack) - commonLen) |-> commonLen + k - 1]

\* ------------------------------------------------------ span bookkeeping
\* applyLoop without the if (span) guard: an END event that finds no span
\* throws, and the events after it are not applied.
RECURSIVE applyLoopAbort(_, _, _, _, _)
applyLoopAbort(st, events, depths, asyncId, i) ==
  IF i > Len(events) THEN st
  ELSE
    LET event == events[i] IN
    IF event.kind = "START"
      THEN applyLoopAbort(
             [spans |-> MapSet(st.spans, event.name, Len(st.log) + 1),
              log |-> Append(st.log,
                             NewSpan(event.name, event.ts, asyncId, depths[i])),
              ends |-> st.ends],
             events, depths, asyncId, i + 1)
    ELSE IF MapHas(st.spans, event.name)
      THEN applyLoopAbort(
             [spans |-> MapDelete(st.spans, event.name),
              log |-> EndSpan(st.log, MapGet(st.spans, event.name), event.ts),
              ends |-> Append(st.ends, MapGet(st.spans, event.name))],
             events, depths, asyncId, i + 1)
    ELSE st

\* The for loop of applyEventsToSpans over events[i..]; st carries the
\* context's Map<string, Span>, the tracer's spans and the end order.
RECURSIVE applyLoop(_, _, _, _, _)
applyLoop(st, events, depths, asyncId, i) ==
  IF i > Len(events) THEN st
  ELSE
    LET event == events[i] IN
    IF event.kind = "START"
      THEN applyLoop(
             [spans |-> MapSet(st.spans, event.name, Len(st.log) + 1),
              log |-> Append(st.log,
                             NewSpan(event.name, event.ts, asyncId, depths[i])),
              ends |-> st.ends],
             events, depths, asyncId, i + 1)
    ELSE IF MapHas(st.spans, event.name)
      THEN applyLoop(
             [spans |-> MapDelete(st.spans, event.name),
              log |-> EndSpan(st.log, MapGet(st.spans, event.name), event.ts),
              ends |-> Append(st.ends, MapGet(st.spans, event.name))],
             events, depths, asyncId, i + 1)
    ELSE applyLoop(st, events, depths, asyncId, i + 1)

\* applyEventsToSpans(asyncId, events) on the tracer state
\* tr = [active, log, ends].
applyEventsToSpans(tr, asyncId, events, depths) ==
  LET active0 == IF MapHas(tr.active, asyncId) THEN tr.active
                 ELSE MapSet(tr.active, asyncId, <<>>)
      st == applyLoop([spans |-> MapGet(active0, asyncId),
                       log |-> tr.log, ends |-> tr.ends],
                      events, depths, asyncId, 1)
  IN  [active |-> MapSet(active0, asyncId, st.spans),
       log |-> st.log, ends |-> st.ends]

\* processSamples stamping the events with the older sample's time.
processSamplesPrevTs(tr, smp, asyncId) ==
  IF asyncId \notin DOMAIN smp \/ Len(smp[asyncId]) < 2 THEN tr
  ELSE
    LET s == smp[asyncId]
        prevSample == s[Len(s) - 1]
        currSample == s[Len(s)]
    IN  applyEventsToSpans(tr, asyncId,
          convertSamplesToEvents(prevSample.stack, currSample.stack,
                                 prevSample.ts),
          EventDepths(prevSample.stack, currSample.stack))

\* processSamples(asyncId) once smp is the Map of samples.
processSamples(tr, smp, asyncId) ==
  IF asyncId \notin DOMAIN smp \/ Len(smp[asyncId]) < 2 THEN tr
  ELSE
    LET s == smp[asyncId]
        prevSample == s[Len(s) - 1]
        currSample == s[Len(s)]
    IN  applyEventsToSpans(tr, asyncId,
          convertSamplesToEvents(prevSample.stack, currSample.stack,
                                 currSample.ts),
          EventDepths(prevSample.stack, currSample.stack))

\* spans.forEach(span => span.end()) at time ts, in insertion order.
RECURSIVE endAll(_, _, _, _)
endAll(tr, ids, ts, i) ==
  IF i > Len(ids) THEN tr
  ELSE endAll([active |-> tr.active,
               log |-> EndSpan(tr.log, ids[i], ts),
               ends |-> Append(tr.ends, ids[i])], ids, ts, i + 1)

\* samplesDelete clearing the whole Map.
samplesClear(smp, asyncId) == << >>

\* samples.delete(asyncId)
samplesDelete(smp, asyncId) ==
  [c \in (DOMAIN smp) \ {asyncId} |-> smp[c]]

\* flushSpans creating the table it does not find.
flushSpansCreate(tr, asyncId, ts) ==
  IF MapHas(tr.active, asyncId)
    THEN LET e == endAll(tr, MapVals(MapGet(tr.active, asyncId)), ts, 1)
         IN  [active |-> MapDelete(e.active, asyncId),
              log |-> e.log, ends |-> e.ends]
    ELSE [active |-> MapSet(tr.active, asyncId, << >>),
          log |-> tr.log, ends |-> tr.ends]

\* flushAsyncContext(asyncId): the part that acts on the spans.
flushSpans(tr, asyncId, ts) ==
  IF MapHas(tr.active, asyncId)
    THEN LET e == endAll(tr, MapVals(MapGet(tr.active, asyncId)), ts, 1)
         IN  [active |-> MapDelete(e.active, asyncId),
              log |-> e.log, ends |-> e.ends]
    ELSE tr

\* flushAsyncContext(asyncId) on st = [smp, tr].
flushAsyncContext(st, asyncId, ts) ==
  [smp |-> samplesDelete(st.smp, asyncId),
   tr |-> flushSpans(st.tr, asyncId, ts)]

\* this.activeSpans.forEach((_, asyncId) => this.flushAsyncContext(asyncId))
RECURSIVE flushEach(_, _, _, _)
flushEach(st, ids, ts, i) ==
  IF i > Len(ids) THEN st
  ELSE flushEach(flushAsyncContext(st, ids[i], ts), ids, ts, i + 1)

\* ------------------------------------------------------ the frame filter
\* The default excludePatterns, by their source text.
excludePatterns ==
  { "node_modules", "internal\\/", "async_hooks", "^Object\\.",
    "^Promise\\.", "^process\\." }

\* pattern.test(name) for the frame names of the model: only the anchored
\* prefixes process. and Promise. occur in them.
PatternTest(pattern, name) ==
  \/ pattern = "^process\\." /\ name = ExcludedName
  \/ pattern = "^Promise\\." /\ name = PromiseName

\* shouldExclude with every in place of some.
shouldExcludeEvery(name) ==
  \A pattern \in excludePatterns : PatternTest(pattern, name)

shouldExclude(name) ==
  \E pattern \in excludePatterns : PatternTest(pattern, name)

filterNames(raw) ==
  LET keep(name) == ~shouldExclude(name) IN SelectSeq(raw, keep)

\* The handle setInterval returns: one that no active timer has.
FreshTimer(active) ==
  CHOOSE t \in TimerIds \ active : \A u \in TimerIds \ active : t <= u

Tr == [active |-> activeSpans, log |-> spanLog, ends |-> endLog]

\* The host before the sampler is started: no callback runs, no Timeout
\* resource of the sampler exists, no resource has been reported.
NoHost == [running |-> 0, timer |-> 0, pending |-> FALSE, created |-> {},
           ran |-> {}, gone |-> {}, last |-> 0, alive |-> TRUE]

\* A service that has registered no handler and has not been served.
NoService == [served |-> FALSE, wrapped |-> FALSE, handlers |-> << >>,
              calls |-> << >>]

\* let tracingManager: CAPTracingManager | null = null
NoManager == [id |-> 0, samplingIntervalMs |-> 0,
              options |-> [samplingIntervalMs |-> Undefined,
                           enableStackSampling |-> "undefined",
                           enableEventTracing |-> "undefined"]]

\* millisecondsToHrTime has not been called.
NoHr == [ms |-> 0, called |-> FALSE, out |-> <<0, 0>>]

\* ---------------------------------------------------------------- Init
LiveInit ==
  /\ host = NoHost
  /\ service = NoService
  /\ tracingManager = NoManager
  /\ mgrLog = << >>
  /\ hrCall = NoHr
  /\ enabled = FALSE
  /\ hookEnabled = FALSE
  /\ interval = NoTimer
  /\ timers = {}
  /\ samples = << >>
  /\ activeSpans = << >>
  /\ currentAsyncId = 0
  /\ now = 0
  /\ spanLog = << >>
  /\ endLog = << >>
  /\ startedAgain = FALSE

DiffIdle ==
  /\ tSamples = << >>
  /\ tIdx = 0
  /\ tPrevStack = << >>
  /\ tEvents = << >>
  /\ dIdx = 0
  /\ dEvents = << >>

\* No call of a wrapped function is in progress.
NoCall == [async |-> FALSE, outcome |-> [kind |-> "none", val |-> "none"],
           span |-> 0]

\* No earlier call of processProfileToSpans has returned.
NoRun == [returned |-> FALSE, pc |-> "none", samples |-> << >>,
          log |-> << >>, ends |-> << >>]

\* processProfileToSpans has not been called.
BatchIdle ==
  /\ profile = << >>
  /\ bPc = "idle"
  /\ nodeMap = << >>
  /\ parentMap = << >>
  /\ callStack = << >>
  /\ bSamples = << >>
  /\ currentTime = 0
  /\ bIdx = 0
  /\ bActive = << >>
  /\ bPrevStack = << >>
  /\ firstRun = NoRun

\* No wrapped function is under call.
WrapIdle ==
  /\ wrapper = "none"
  /\ wPc = "idle"
  /\ wCall = NoCall
  /\ wLog = << >>
  /\ wReturned = << >>

Init == LiveInit /\ DiffIdle /\ BatchIdle /\ WrapIdle

\* ------------------------------------------------------------- actions
\* Start without the guard on enabled.
StartUnguarded ==
  /\ hookEnabled' = TRUE
  /\ enabled' = TRUE
  /\ interval' = FreshTimer(timers)
  /\ timers' = timers \cup {FreshTimer(timers)}
  /\ \E a \in AsyncIds : currentAsyncId' = a
  /\ startedAgain' = enabled
  /\ UNCHANGED <<samples, activeSpans, now, spanLog, endLog>>
  /\ UNCHANGED diffVars
  /\ UNCHANGED batchVars
  /\ UNCHANGED wrapVars

\* start().  asyncHook.enable() precedes setInterval, so the init callback
\* of the new Timeout resource runs inside start() with the id a the host
\* gives it; the host hands out a timer handle t that is not in use.
Start ==
  /\ IF enabled
       THEN /\ startedAgain' = TRUE
            /\ UNCHANGED <<enabled, hookEnabled, interval, timers,
                           currentAsyncId>>
       ELSE /\ hookEnabled' = TRUE
            /\ enabled' = TRUE
            /\ interval' = FreshTimer(timers)
            /\ timers' = timers \cup {FreshTimer(timers)}
            /\ \E a \in AsyncIds : currentAsyncId' = a
            /\ UNCHANGED startedAgain
  /\ UNCHANGED <<samples, activeSpans, now, spanLog, endLog>>
  /\ UNCHANGED diffVars
  /\ UNCHANGED batchVars
  /\ UNCHANGED wrapVars

\* stop()
Stop ==
  /\ IF ~enabled
       THEN UNCHANGED <<enabled, hookEnabled, interval, timers, samples,
                        activeSpans, spanLog, endLog, startedAgain>>
       ELSE LET st == flushEach([smp |-> samples, tr |-> Tr],
                                MapKeys(activeSpans), now, 1)
            IN  /\ timers' = IF interval # NoTimer
                               THEN timers \ {interval} ELSE timers
                /\ interval' = NoTimer
                /\ hookEnabled' = FALSE
                /\ enabled' = FALSE
                /\ samples' = st.smp
                /\ activeSpans' = st.tr.active
                /\ spanLog' = st.tr.log
                /\ endLog' = st.tr.ends
                /\ startedAgain' = FALSE
  /\ UNCHANGED <<currentAsyncId, now>>
  /\ UNCHANGED diffVars
  /\ UNCHANGED batchVars
  /\ UNCHANGED wrapVars

\* asyncHook init / before / after: each records the id it is given.
HookInit(asyncId) ==
  /\ hookEnabled
  /\ currentAsyncId' = asyncId
  /\ UNCHANGED <<enabled, hookEnabled, interval, timers, samples,
                 activeSpans, now, spanLog, endLog, startedAgain>>
  /\ UNCHANGED diffVars
  /\ UNCHANGED batchVars
  /\ UNCHANGED wrapVars

HookBefore(asyncId) ==
  /\ hookEnabled
  /\ currentAsyncId' = asyncId
  /\ UNCHANGED <<enabled, hookEnabled, interval, timers, samples,
                 activeSpans, now, spanLog, endLog, startedAgain>>
  /\ UNCHANGED diffVars
  /\ UNCHANGED batchVars
  /\ UNCHANGED wrapVars

HookAfter(asyncId) ==
  /\ hookEnabled
  /\ currentAsyncId' = asyncId
  /\ UNCHANGED <<enabled, hookEnabled, interval, timers, samples,
                 activeSpans, now, spanLog, endLog, startedAgain>>
  /\ UNCHANGED diffVars
  /\ UNCHANGED batchVars
  /\ UNCHANGED wrapVars

\* asyncHook destroy: flushAsyncContext(asyncId)
HookDestroy(asyncId) ==
  /\ hookEnabled
  /\ LET st == flushAsyncContext([smp |-> samples, tr |-> Tr], asyncId, now)
     IN  /\ samples' = st.smp
         /\ activeSpans' = st.tr.active
         /\ spanLog' = st.tr.log
         /\ endLog' = st.tr.ends
  /\ UNCHANGED <<enabled, hookEnabled, interval, timers, currentAsyncId, now,
                 startedAgain>>
  /\ UNCHANGED diffVars
  /\ UNCHANGED batchVars
  /\ UNCHANGED wrapVars

\* One firing of the interval timer: captureStackSample() on the stack raw.
Tick(raw) ==
  /\ timers # {}
  /\ now < MaxTime
  /\ now' = now + 1
  /\ LET functionNames == filterNames(raw)
         sample == [ts |-> now', stack |-> functionNames,
                    asyncId |-> currentAsyncId]
         had == IF currentAsyncId \in DOMAIN samples
                  THEN samples[currentAsyncId] ELSE << >>
         smp == [c \in (DOMAIN samples) \cup {currentAsyncId} |->
                   IF c = currentAsyncId THEN Append(had, sample)
                   ELSE samples[c]]
         tr == processSamples(Tr, smp, currentAsyncId)
     IN  IF Len(functionNames) = 0
           THEN UNCHANGED <<samples, activeSpans, spanLog, endLog>>
           ELSE /\ samples' = smp
                /\ activeSpans' = tr.active
                /\ spanLog' = tr.log
                /\ endLog' = tr.ends
  /\ UNCHANGED <<enabled, hookEnabled, interval, timers, currentAsyncId,
                 startedAgain>>
  /\ UNCHANGED diffVars
  /\ UNCHANGED batchVars
  /\ UNCHANGED wrapVars

Next ==
  \/ Start /\ UNCHANGED hostVars
  \/ Stop /\ UNCHANGED hostVars
  \/ \E asyncId \in AsyncIds : HookInit(asyncId) /\ UNCHANGED hostVars
  \/ \E asyncId \in AsyncIds : HookBefore(asyncId) /\ UNCHANGED hostVars
  \/ \E asyncId \in AsyncIds : HookAfter(asyncId) /\ UNCHANGED hostVars
  \/ \E asyncId \in AsyncIds : HookDestroy(asyncId) /\ UNCHANGED hostVars
  \/ \E raw \in RawStacks : Tick(raw) /\ UNCHANGED hostVars

Spec == Init /\ [][Next]_vars

\* ------------------------------------------------------ the pure differ
\* All stacks over Names of at most n frames.
StacksUpTo(n) == UNION { [1..k -> Names] : k \in 0..n }

\* Lists of n samples {ts, stack} with increasing timestamps.
SampleLists(n) ==
  { [k \in 1..n |-> [ts |-> k, stack |-> f[k]]] :
      f \in [1..n -> StacksUpTo(MaxLen)] }

DiffInit ==
  /\ LiveInit
  /\ \E n \in 0..MaxSamples : tSamples \in SampleLists(n)
  /\ tIdx = 0
  /\ tPrevStack = << >>
  /\ tEvents = << >>
  /\ dIdx = 0
  /\ dEvents = << >>
  /\ BatchIdle
  /\ WrapIdle

\* One iteration of the for loop of convertSamplesToTrace(samples).
TraceStep ==
  /\ tIdx < Len(tSamples)
  /\ LET sample == tSamples[tIdx + 1]
         currStack == sample.stack
         currentTs == sample.ts
         commonLen == commonLenFrom(tPrevStack, currStack, 0)
     IN  /\ tEvents' = tEvents \o EndEvents(tPrevStack, commonLen, currentTs)
                               \o StartEvents(currStack, commonLen, currentTs)
         /\ tPrevStack' = currStack
  /\ tIdx' = tIdx + 1
  /\ UNCHANGED <<tSamples, dIdx, dEvents>>
  /\ UNCHANGED liveVars
  /\ UNCHANGED batchVars
  /\ UNCHANGED wrapVars

\* The stack that precedes sample k of a list (the empty stack before the
\* first).
StackBefore(list, k) == IF k = 1 THEN << >> ELSE list[k - 1].stack

\* convertSamplesToEvents(prevStack, currStack, currentTs) called on the next
\* pair of consecutive stacks of tSamples.
DiffCall ==
  /\ dIdx < Len(tSamples)
  /\ dEvents' = convertSamplesToEvents(StackBefore(tSamples, dIdx + 1),
                                       tSamples[dIdx + 1].stack,
                                       tSamples[dIdx + 1].ts)
  /\ dIdx' = dIdx + 1
  /\ UNCHANGED <<tSamples, tIdx, tPrevStack, tEvents>>
  /\ UNCHANGED liveVars
  /\ UNCHANGED batchVars
  /\ UNCHANGED wrapVars

DiffNext ==
  \/ TraceStep /\ UNCHANGED hostVars
  \/ DiffCall /\ UNCHANGED hostVars

SpecDiff == DiffInit /\ [][DiffNext]_vars

\* ------------------------------------- Example 1 of stack-to-trace.js
\* The stacks of Example 1, and the empty stack.
ExampleStacks ==
  { << >>, <<"main">>, <<"main", "my_fn", "my_fn2">>,
    <<"main", "my_fn2", "my_fn">> }

\* The timestamps 7.5, 9.1, 9.3, 10.7 of Example 1, in tenths.
ExampleTs == <<75, 91, 93, 107>>

\* The samples of Example 1.
Example1 ==
  << [ts |-> 75, stack |-> <<"main">>],
     [ts |-> 91, stack |-> <<"main", "my_fn", "my_fn2">>],
     [ts |-> 93, stack |-> <<"main", "my_fn2", "my_fn">>],
     [ts |-> 107, stack |-> <<"main">>] >>

\* Every list of four samples at the timestamps of Example 1.
ExampleLists(n) ==
  { [k \in 1..n |-> [ts |-> ExampleTs[k], stack |-> f[k]]] :
      f \in [1..n -> ExampleStacks] }

ExampleInit ==
  /\ LiveInit
  /\ tSamples \in ExampleLists(Len(ExampleTs))
  /\ tIdx = 0
  /\ tPrevStack = << >>
  /\ tEvents = << >>
  /\ dIdx = 0
  /\ dEvents = << >>
  /\ BatchIdle
  /\ WrapIdle

SpecExample == ExampleInit /\ [][DiffNext]_vars

\* -------------------------------------------- processProfileToSpans
\* The call graphs drawn: node id -> the ids of its children, in order.
\* Node 1 is profile.nodes[0].  The last graph has the cycle 2 -> 3 -> 2.
Shapes ==
  { (1 :> << >>),
    (1 :> <<2>>) @@ (2 :> <<3>>) @@ (3 :> << >>),
    (1 :> <<2, 3>>) @@ (2 :> << >>) @@ (3 :> << >>),
    (1 :> <<2>>) @@ (2 :> <<3>>) @@ (3 :> <<2>>) }

\* callFrame.functionName of the nodes; node 3 may have the empty name.
NodeNames(n3) == (1 :> "(root)") @@ (2 :> "A") @@ (3 :> n3)

\* Ids that can appear in profile.samples; 4 is the id of no node.
SampledIds == {1, 2, 3, 4}

\* profile.startTime, and timeDeltas of length n, in microseconds.
StartTime == 999000
TimeDeltas(n) == [i \in 1..n |-> 500 * i]

\* Seconds the host clock can show when span.end() is called without a time.
WallTimes == {7, 8}

\* The profiles drawn.  childIds tells how a node lists its children: as
\* node ids (the flat node list of the V8 profile) or as the child nodes
\* themselves.
Profiles(n) ==
  { [children |-> sh, names |-> NodeNames(n3), childIds |-> ci,
     samples |-> sm, timeDeltas |-> TimeDeltas(dl), startTime |-> StartTime] :
      sh \in Shapes, n3 \in {"B", ""}, ci \in BOOLEAN,
      sm \in [1..n -> SampledIds],
      dl \in { k \in {n - 1, n, n + 1} : k >= 0 } }

\* A native Map used as a dictionary: m.set(k, v).
DictSet(m, k, v) ==
  [x \in (DOMAIN m) \cup {k} |-> IF x = k THEN v ELSE m[x]]

\* a + b of JavaScript when b may be undefined and a may be NaN.
JsAdd(a, b) == IF a = NaN \/ b = Undefined \/ b = NaN THEN NaN ELSE a + b

\* millisecondsToHrTime keeping the microseconds as the second component.
millisecondsToHrTimeMicros(ms) ==
  IF ms = NaN THEN <<NaN, NaN>>
  ELSE <<ms \div 1000000, ms % 1000000>>

\* millisecondsToHrTime(ms); ms is held in thousandths (currentTime / 1000
\* with currentTime a whole number of microseconds), so ms / 1000 is
\* ms \div 10^6 and (ms % 1000) * 1e6 is (ms % 10^6) * 1000.
millisecondsToHrTime(ms) ==
  IF ms = NaN THEN <<NaN, NaN>>
  ELSE <<ms \div 1000000, (ms % 1000000) * 1000>>

\* tracer.startSpan(fnName, {startTime}, spanContext): a child of parentSpan.
startSpanIn(name, hr, depth) ==
  [NewSpan(name, hr, 0, depth) EXCEPT !.parent = GivenParent]

\* The while loop that walks from currentId up the parentMap, unshifting
\* the name of each node onto stack.
RECURSIVE walkUp(_, _, _, _)
walkUp(nm, pm, currentId, stack) ==
  IF currentId # Undefined /\ currentId \in DOMAIN nm
    THEN walkUp(nm, pm,
                IF currentId \in DOMAIN pm THEN pm[currentId] ELSE Undefined,
                <<nm[currentId]>> \o stack)
    ELSE stack

\* batchEndLoop dropping the entries without ending their spans.
RECURSIVE batchEndLoopNoEnd(_, _, _, _)
batchEndLoopNoEnd(st, i, commonLen, hr) ==
  IF i <= commonLen THEN st
  ELSE IF MapHas(st.active, i)
    THEN batchEndLoopNoEnd(
           [active |-> MapDelete(st.active, i),
            log |-> st.log,
            ends |-> st.ends],
           i - 1, commonLen, hr)
    ELSE batchEndLoopNoEnd(st, i - 1, commonLen, hr)

\* The END loop of the span pass: i from prevStack.length down to
\* commonLen + 1 on st = [active, log, ends].
RECURSIVE batchEndLoop(_, _, _, _)
batchEndLoop(st, i, commonLen, hr) ==
  IF i <= commonLen THEN st
  ELSE IF MapHas(st.active, i)
    THEN batchEndLoop(
           [active |-> MapDelete(st.active, i),
            log |-> EndSpan(st.log, MapGet(st.active, i), hr),
            ends |-> Append(st.ends, MapGet(st.active, i))],
           i - 1, commonLen, hr)
    ELSE batchEndLoop(st, i - 1, commonLen, hr)

\* batchStartLoop without the test for the root frame.
RECURSIVE batchStartLoopNoSkip(_, _, _, _)
batchStartLoopNoSkip(st, currStack, i, hr) ==
  IF i >= Len(currStack) THEN st
  ELSE batchStartLoopNoSkip(
         [active |-> MapSet(st.active, i + 1, Len(st.log) + 1),
          log |-> Append(st.log, startSpanIn(currStack[i + 1], hr, i)),
          ends |-> st.ends],
         currStack, i + 1, hr)

\* The START loop of the span pass: i (0-based) from commonLen up to
\* currStack.length - 1.
RECURSIVE batchStartLoop(_, _, _, _)
batchStartLoop(st, currStack, i, hr) ==
  IF i >= Len(currStack) THEN st
  ELSE IF currStack[i + 1] = "(root)"
    THEN batchStartLoop(st, currStack, i + 1, hr)
    ELSE batchStartLoop(
           [active |-> MapSet(st.active, i + 1, Len(st.log) + 1),
            log |-> Append(st.log, startSpanIn(currStack[i + 1], hr, i)),
            ends |-> st.ends],
           currStack, i + 1, hr)

BatchInit ==
  /\ host = NoHost
  /\ service = NoService
  /\ tracingManager = NoManager
  /\ mgrLog = << >>
  /\ hrCall = NoHr
  /\ enabled = FALSE
  /\ hookEnabled = FALSE
  /\ interval = NoTimer
  /\ timers = {}
  /\ samples = << >>
  /\ activeSpans = << >>
  /\ currentAsyncId = 0
  /\ now \in WallTimes
  /\ spanLog = << >>
  /\ endLog = << >>
  /\ startedAgain = FALSE
  /\ DiffIdle
  /\ \E n \in 0..MaxTicks : profile \in Profiles(n)
  /\ bPc = "entry"
  /\ nodeMap = << >>
  /\ parentMap = << >>
  /\ callStack = << >>
  /\ bSamples = << >>
  /\ currentTime = 0
  /\ bIdx = 0
  /\ bActive = << >>
  /\ bPrevStack = << >>
  /\ firstRun = NoRun
  /\ WrapIdle

\* A call traverse(node) with node the node object of id n: the call is
\* refused by the host when the stack is full, else its first statement
\* runs and the activation waits at its first child.
EnterTraverse(stack, n) ==
  IF Len(stack) >= StackLimit
    THEN /\ bPc' = "RangeError"
         /\ callStack' = stack
         /\ UNCHANGED nodeMap
    ELSE /\ bPc' = "traverse"
         /\ callStack' = Append(stack, [node |-> n, next |-> 1])
         /\ nodeMap' = DictSet(nodeMap, n,
                               IF profile.names[n] = "" THEN "(anonymous)"
                               ELSE profile.names[n])

\* processProfileToSpans is called: traverse(profile.profile.nodes[0]).
BatchCall ==
  /\ bPc = "entry"
  /\ EnterTraverse(callStack, 1)
  /\ currentTime' = profile.startTime
  /\ UNCHANGED <<firstRun, profile, parentMap, bSamples, bIdx, bActive, bPrevStack>>
  /\ UNCHANGED liveVars
  /\ UNCHANGED diffVars
  /\ UNCHANGED wrapVars

\* The innermost activation of traverse takes its next child, or returns.
\* A child given as an id is a number: child.id is undefined, and
\* traverse(child) throws on child.callFrame.functionName.
TraverseStep ==
  /\ bPc = "traverse"
  /\ LET top == callStack[Len(callStack)]
         kids == profile.children[top.node]
         rest == SubSeq(callStack, 1, Len(callStack) - 1)
     IN  IF top.next > Len(kids)
           THEN /\ callStack' = rest
                /\ bPc' = IF rest = << >> THEN "run" ELSE "traverse"
                /\ UNCHANGED <<nodeMap, parentMap>>
         ELSE IF profile.childIds
           THEN /\ parentMap' = DictSet(parentMap, Undefined, top.node)
                /\ bPc' = "TypeError"
                /\ UNCHANGED <<nodeMap, callStack>>
         ELSE /\ parentMap' = DictSet(parentMap, kids[top.next], top.node)
              /\ EnterTraverse(Append(rest, [top EXCEPT !.next = @ + 1]),
                               kids[top.next])
  /\ UNCHANGED <<firstRun, profile, bSamples, currentTime, bIdx, bActive, bPrevStack>>
  /\ UNCHANGED liveVars
  /\ UNCHANGED diffVars
  /\ UNCHANGED wrapVars

\* One iteration of profile.profile.samples.forEach: the sample of the
\* next tick is pushed.
BuildSample ==
  /\ bPc = "run"
  /\ Len(bSamples) < Len(profile.samples)
  /\ LET index == Len(bSamples) + 1
         nodeId == profile.samples[index]
         timeDelta == IF index <= Len(profile.timeDeltas)
                        THEN profile.timeDeltas[index] ELSE Undefined
         t == JsAdd(currentTime, timeDelta)
     IN  /\ currentTime' = t
         /\ bSamples' = Append(bSamples,
                          [ts |-> t,
                           stack |-> walkUp(nodeMap, parentMap, nodeId, << >>)])
  /\ UNCHANGED <<firstRun, profile, bPc, nodeMap, parentMap, callStack, bIdx, bActive,
                 bPrevStack>>
  /\ UNCHANGED liveVars
  /\ UNCHANGED diffVars
  /\ UNCHANGED wrapVars

\* One iteration of samples.forEach: the spans of the next sample.
SpanStep ==
  /\ bPc = "run"
  /\ Len(bSamples) = Len(profile.samples)
  /\ bIdx < Len(bSamples)
  /\ LET sample == bSamples[bIdx + 1]
         currStack == sample.stack
         hr == millisecondsToHrTime(sample.ts)
         commonLen == commonLenFrom(bPrevStack, currStack, 0)
         ended == batchEndLoop([active |-> bActive, log |-> spanLog,
                                ends |-> endLog],
                               Len(bPrevStack), commonLen, hr)
         st == batchStartLoop(ended, currStack, commonLen, hr)
     IN  /\ bActive' = st.active
         /\ spanLog' = st.log
         /\ endLog' = st.ends
         /\ bPrevStack' = currStack
  /\ bIdx' = bIdx + 1
  /\ UNCHANGED <<firstRun, profile, bPc, nodeMap, parentMap, callStack, bSamples,
                 currentTime>>
  /\ UNCHANGED <<enabled, hookEnabled, interval, timers, samples, activeSpans,
                 currentAsyncId, now, startedAgain>>
  /\ UNCHANGED diffVars
  /\ UNCHANGED wrapVars

\* activeSpans.forEach((span) => span.end()): the spans still open are
\* ended at the host's clock, and the call returns.
Cleanup ==
  /\ bPc = "run"
  /\ Len(bSamples) = Len(profile.samples)
  /\ bIdx = Len(bSamples)
  /\ LET e == endAll([active |-> bActive, log |-> spanLog, ends |-> endLog],
                     MapVals(bActive), <<now, 0>>, 1)
     IN  /\ spanLog' = e.log
         /\ endLog' = e.ends
  /\ bPc' = "done"
  /\ UNCHANGED <<firstRun, profile, nodeMap, parentMap, callStack, bSamples,
                 currentTime, bIdx, bActive, bPrevStack>>
  /\ UNCHANGED <<enabled, hookEnabled, interval, timers, samples, activeSpans,
                 currentAsyncId, now, startedAgain>>
  /\ UNCHANGED diffVars
  /\ UNCHANGED wrapVars

\* The call has returned or thrown.
BatchOver == bPc \in {"done", "TypeError", "RangeError"}

\* The caller keeps what the call produced and calls processProfileToSpans
\* once more on the same profile, at the same or a later time of the host
\* clock; spanLog and endLog then record the operations of the new call.
CallAgain ==
  /\ BatchOver
  /\ ~firstRun.returned
  /\ firstRun' = [returned |-> TRUE, pc |-> bPc, samples |-> bSamples,
                  log |-> spanLog, ends |-> endLog]
  /\ \E t \in WallTimes : t >= now /\ now' = t
  /\ bPc' = "entry"
  /\ nodeMap' = << >>
  /\ parentMap' = << >>
  /\ callStack' = << >>
  /\ bSamples' = << >>
  /\ currentTime' = 0
  /\ bIdx' = 0
  /\ bActive' = << >>
  /\ bPrevStack' = << >>
  /\ spanLog' = << >>
  /\ endLog' = << >>
  /\ UNCHANGED profile
  /\ UNCHANGED <<enabled, hookEnabled, interval, timers, samples, activeSpans,
                 currentAsyncId, startedAgain>>
  /\ UNCHANGED diffVars
  /\ UNCHANGED wrapVars

BatchNext ==
  \/ BatchCall /\ UNCHANGED hostVars
  \/ TraverseStep /\ UNCHANGED hostVars
  \/ BuildSample /\ UNCHANGED hostVars
  \/ SpanStep /\ UNCHANGED hostVars
  \/ Cleanup /\ UNCHANGED hostVars
  \/ CallAgain /\ UNCHANGED hostVars

SpecBatch == BatchInit /\ [][BatchNext]_vars

\* --------------------------------------------- the sampler in its host
\* The async ids the host hands out: the Timeout of setInterval gets one
\* of AsyncIds (Start), the other resources any id not yet given.
HostIds == AsyncIds \cup {3}

\* start() called by the application.  The Timeout resource created by
\* setInterval gets a fresh async id, which the init callback receives.
HostStart ==
  /\ host.alive
  /\ host.running = 0
  /\ Start
  /\ IF enabled
       THEN UNCHANGED host
       ELSE /\ currentAsyncId' \notin host.created
            /\ host' = [host EXCEPT !.timer = currentAsyncId',
                                    !.created = @ \cup {currentAsyncId'}]

\* stop() called by the application.  clearInterval destroys the Timeout;
\* its destroy callback is not delivered, the hook being disabled by then.
HostStop ==
  /\ host.alive
  /\ host.running = 0
  /\ Stop
  /\ host' = IF enabled /\ host.timer # 0
               THEN [host EXCEPT !.timer = 0, !.gone = @ \cup {host.timer}]
               ELSE host

\* The application creates an async resource (a promise, a request): the
\* host gives it a fresh id and calls init.  The interval's callback
\* creates none before it takes its sample.
HostCreate(asyncId) ==
  /\ host.alive
  /\ ~host.pending
  /\ asyncId \notin host.created
  /\ HookInit(asyncId)
  /\ host' = [host EXCEPT !.created = @ \cup {asyncId}]

\* The event loop runs a callback of the resource asyncId: before, ...
HostEnter(asyncId) ==
  /\ host.alive
  /\ host.running = 0
  /\ asyncId \in host.created \ (host.gone \cup {host.timer})
  /\ HookBefore(asyncId)
  /\ host' = [host EXCEPT !.running = asyncId, !.ran = @ \cup {asyncId},
                          !.last = asyncId]

\* ... and after, when the callback returns.
HostLeave ==
  /\ host.alive
  /\ host.running # 0
  /\ host.running # host.timer
  /\ HookAfter(host.running)
  /\ host' = [host EXCEPT !.running = 0]

\* The resource asyncId is collected: destroy, delivered by the event loop
\* between callbacks.
HostDestroy(asyncId) ==
  /\ host.alive
  /\ host.running = 0
  /\ asyncId \in host.created \ (host.gone \cup {host.timer, host.running})
  /\ HookDestroy(asyncId)
  /\ host' = [host EXCEPT !.gone = @ \cup {asyncId}]

\* The interval has elapsed and no callback is running: the event loop
\* runs the Timeout's callback, framed by before and after like any other.
HostTimerBefore ==
  /\ host.alive
  /\ host.running = 0
  /\ host.timer # 0
  /\ timers # {}
  /\ now < MaxTime
  /\ HookBefore(host.timer)
  /\ host' = [host EXCEPT !.running = host.timer, !.pending = TRUE]

\* () => this.captureStackSample(), the interval's callback.
HostTimerTick(raw) ==
  /\ host.alive
  /\ host.timer # 0
  /\ host.running = host.timer
  /\ host.pending
  /\ Tick(raw)
  /\ host' = [host EXCEPT !.pending = FALSE]

HostTimerAfter ==
  /\ host.alive
  /\ host.timer # 0
  /\ host.running = host.timer
  /\ ~host.pending
  /\ HookAfter(host.timer)
  /\ host' = [host EXCEPT !.running = 0]

HostNext ==
  \/ HostStart /\ UNCHANGED appVars
  \/ HostStop /\ UNCHANGED appVars
  \/ \E asyncId \in HostIds : HostCreate(asyncId) /\ UNCHANGED appVars
  \/ \E asyncId \in HostIds : HostEnter(asyncId) /\ UNCHANGED appVars
  \/ HostLeave /\ UNCHANGED appVars
  \/ \E asyncId \in HostIds : HostDestroy(asyncId) /\ UNCHANGED appVars
  \/ HostTimerBefore /\ UNCHANGED appVars
  \/ \E raw \in RawStacks : HostTimerTick(raw) /\ UNCHANGED appVars
  \/ HostTimerAfter /\ UNCHANGED appVars

SpecHost == Init /\ [][HostNext]_vars

\* ------------------------------------------- a span.end() that throws
\* The for loop of applyEventsToSpans when the backend raises an error from
\* the first span.end(event.ts) that is called: the loop is left at that
\* statement, before spans.delete(event.name).  ended says whether the
\* backend had recorded the end before it raised.
RECURSIVE applyLoopThrow(_, _, _, _, _, _)
applyLoopThrow(st, events, depths, asyncId, i, ended) ==
  IF i > Len(events)
    THEN [spans |-> st.spans, log |-> st.log, ends |-> st.ends,
          thrown |-> FALSE]
  ELSE
    LET event == events[i] IN
    IF event.kind = "START"
      THEN applyLoopThrow(
             [spans |-> MapSet(st.spans, event.name, Len(st.log) + 1),
              log |-> Append(st.log,
                             NewSpan(event.name, event.ts, asyncId, depths[i])),
              ends |-> st.ends],
             events, depths, asyncId, i + 1, ended)
    ELSE IF MapHas(st.spans, event.name)
      THEN [spans |-> st.spans,
            log |-> IF ended
                      THEN EndSpan(st.log, MapGet(st.spans, event.name),
                                   event.ts)
                      ELSE st.log,
            ends |-> Append(st.ends, MapGet(st.spans, event.name)),
            thrown |-> TRUE]
    ELSE applyLoopThrow(st, events, depths, asyncId, i + 1, ended)

\* The interval's callback when span.end() throws while the sample is
\* processed.  Nothing between span.end and the event loop catches the
\* error (applyEventsToSpans, processSamples, captureStackSample and the
\* callback have no try), and the program installs no uncaughtException
\* listener: the host terminates the process, and its timers with it.
HostTimerTickFails(raw, ended) ==
  /\ host.alive
  /\ host.timer # 0
  /\ host.running = host.timer
  /\ host.pending
  /\ timers # {}
  /\ now < MaxTime
  /\ now' = now + 1
  /\ LET functionNames == filterNames(raw)
         sample == [ts |-> now', stack |-> functionNames,
                    asyncId |-> currentAsyncId]
         had == IF currentAsyncId \in DOMAIN samples
                  THEN samples[currentAsyncId] ELSE << >>
         s == Append(had, sample)
         smp == [c \in (DOMAIN samples) \cup {currentAsyncId} |->
                   IF c = currentAsyncId THEN s ELSE samples[c]]
         active0 == IF MapHas(activeSpans, currentAsyncId) THEN activeSpans
                    ELSE MapSet(activeSpans, currentAsyncId, << >>)
         prevSample == s[Len(s) - 1]
         st == applyLoopThrow(
                 [spans |-> MapGet(active0, currentAsyncId),
                  log |-> spanLog, ends |-> endLog],
                 convertSamplesToEvents(prevSample.stack, sample.stack,
                                        sample.ts),
                 EventDepths(prevSample.stack, sample.stack),
                 currentAsyncId, 1, ended)
     IN  /\ Len(functionNames) # 0
         /\ Len(s) >= 2
         /\ st.thrown
         /\ samples' = smp
         /\ activeSpans' = MapSet(active0, currentAsyncId, st.spans)
         /\ spanLog' = st.log
         /\ endLog' = st.ends
  /\ timers' = {}
  /\ host' = [host EXCEPT !.alive = FALSE, !.pending = FALSE, !.running = 0]
  /\ UNCHANGED <<enabled, hookEnabled, interval, currentAsyncId,
                 startedAgain>>
  /\ UNCHANGED diffVars
  /\ UNCHANGED batchVars
  /\ UNCHANGED wrapVars

FailNext ==
  \/ HostNext
  \/ \E raw \in RawStacks, ended \in BOOLEAN :
       HostTimerTickFails(raw, ended) /\ UNCHANGED appVars

SpecFail == Init /\ [][FailNext]_vars

\* ------------------------------------------ CAPEventTracer.wrapService
Phases == {"before", "after", "on"}
Events == {"READ", "CREATE"}
\* The second argument of service.before / after / on: an entity name, or
\* the handler itself when no entity is given.
Entities == {"Books", "Authors", "function"}

\* No span: the handler runs as the service registered it.
NoName == << >>

\* The span name wrapService composes: phase:event:entity, the entity
\* being '*' when the second argument is the handler.
spanNameOf(phase, event, entity) ==
  <<phase, event, IF entity = "function" THEN "*" ELSE entity>>

\* service.before / after / on (event, entity, handler).  Once wrapService
\* has replaced the three methods the handler is registered wrapped by
\* wrapHandler under its span name; until then the service's own method
\* registers the handler as it is.
Register(phase, event, entity) ==
  /\ Len(service.handlers) < MaxHandlers
  /\ service' = [service EXCEPT !.handlers =
        Append(@, [phase |-> phase, event |-> event, entity |-> entity,
                   span |-> IF service.wrapped
                              THEN spanNameOf(phase, event, entity)
                              ELSE NoName])]
  /\ UNCHANGED <<liveVars, diffVars, batchVars, wrapVars, host,
                 tracingManager, mgrLog, hrCall>>

\* cds emits 'served' once the services are set up (their init() has run):
\* the callback of server.ts calls instrumentService, that is wrapService.
Served ==
  /\ ~service.served
  /\ service' = [service EXCEPT !.served = TRUE, !.wrapped = TRUE]
  /\ UNCHANGED <<liveVars, diffVars, batchVars, wrapVars, host,
                 tracingManager, mgrLog, hrCall>>

\* A request makes the served service invoke its handler k: a wrapped
\* handler starts and ends a span of its name around the handler.
Dispatch(k) ==
  /\ service.served
  /\ k \in 1..Len(service.handlers)
  /\ Len(service.calls) < MaxCalls
  /\ service' = [service EXCEPT !.calls =
        Append(@, [handler |-> k, span |-> service.handlers[k].span])]
  /\ UNCHANGED <<liveVars, diffVars, batchVars, wrapVars, host,
                 tracingManager, mgrLog, hrCall>>

ServiceNext ==
  \/ \E phase \in Phases, event \in Events, entity \in Entities :
       Register(phase, event, entity)
  \/ Served
  \/ \E k \in 1..MaxHandlers : Dispatch(k)

SpecService == Init /\ [][ServiceNext]_vars

\* ---------------------------- CAPTracingManager and initCAPTracing
\* The options objects passed to initCAPTracing: none at all (every
\* optional field reads undefined), or the three fields given.
ManagerOptions ==
  {NoManager.options} \cup
  [samplingIntervalMs : {Undefined, 10},
   enableStackSampling : {"true", "false"},
   enableEventTracing : {"true", "false"}]

\* new CAPTracingManager(options), the id-th object created: the sampler
\* gets options?.samplingIntervalMs || 50 and nothing else of options is
\* read; options is kept to tell which argument the object was built from.
CAPTracingManager(id, options) ==
  [id |-> id,
   samplingIntervalMs |-> IF options.samplingIntervalMs \in {Undefined, 0}
                            THEN 50 ELSE options.samplingIntervalMs,
   options |-> options]

\* initCAPTracing building a new manager on every call.
initCAPTracingAlways(tm, options, id) == CAPTracingManager(id, options)

\* initCAPTracing(options): the value of tracingManager afterwards, which
\* is also what the call returns.
initCAPTracing(tm, options, id) ==
  IF tm.id = 0 THEN CAPTracingManager(id, options) ELSE tm

\* A call of initCAPTracing(options).
InitCall(options) ==
  /\ Len(mgrLog) < MaxInits
  /\ tracingManager' = initCAPTracing(tracingManager, options,
                                      Len(mgrLog) + 1)
  /\ mgrLog' = Append(mgrLog, [fn |-> "initCAPTracing", options |-> options,
                               got |-> tracingManager'.id])
  /\ UNCHANGED <<liveVars, diffVars, batchVars, wrapVars, host, service,
                 hrCall>>

\* A call of getCAPTracing(); got is 0 when it returns null.
GetCall ==
  /\ Len(mgrLog) < MaxInits
  /\ mgrLog' = Append(mgrLog, [fn |-> "getCAPTracing",
                               options |-> NoManager.options,
                               got |-> tracingManager.id])
  /\ UNCHANGED <<liveVars, diffVars, batchVars, wrapVars, host, service,
                 hrCall, tracingManager>>

SingletonNext ==
  \/ \E options \in ManagerOptions : InitCall(options)
  \/ GetCall

SpecSingleton == Init /\ [][SingletonNext]_vars

\* const tracing = initCAPTracing({...}) of server.ts: the one call the
\* server makes, when the module is loaded.
ServerInit(options) ==
  /\ mgrLog = << >>
  /\ InitCall(options)

\* tracing.startStackSampling(): this.stackSampler.start()
StartStackSampling ==
  /\ tracingManager.id # 0
  /\ Start
  /\ UNCHANGED hostVars

\* tracing.stopStackSampling(): this.stackSampler.stop()
StopStackSampling ==
  /\ tracingManager.id # 0
  /\ Stop
  /\ UNCHANGED hostVars

\* tracing.instrumentService(service), called for the service from the
\* 'served' callback: this.eventTracer.wrapService(service)
InstrumentService ==
  /\ tracingManager.id # 0
  /\ Served

\* The sampler of the manager ticks.
ManagerTick(raw) ==
  /\ tracingManager.id # 0
  /\ Tick(raw)
  /\ UNCHANGED hostVars

ManagerNext ==
  \/ \E options \in ManagerOptions : ServerInit(options)
  \/ StartStackSampling
  \/ StopStackSampling
  \/ InstrumentService
  \/ \E raw \in RawStacks : ManagerTick(raw)

SpecManager == Init /\ [][ManagerNext]_vars

\* ------------------------------------------------ millisecondsToHrTime
\* A caller converts the whole number of milliseconds ms (ms * 1000 in the
\* thousandths millisecondsToHrTime is modelled on).
HrCall(ms) ==
  /\ ~hrCall.called
  /\ hrCall' = [ms |-> ms, called |-> TRUE,
                out |-> millisecondsToHrTime(ms * 1000)]
  /\ UNCHANGED <<liveVars, diffVars, batchVars, wrapVars, host, service,
                 tracingManager, mgrLog>>

HrNext == \E ms \in 0..MaxMs : HrCall(ms)

SpecHr == Init /\ [][HrNext]_vars

\* The program as a whole: the host either runs the live sampler or makes
\* a batch call (the batch call is synchronous, so no tick fires inside it).
BothInit == Init \/ BatchInit

LiveNext == bPc = "idle" /\ Next

SpecBoth == BothInit /\ [][LiveNext \/ BatchNext]_vars

\* ------------------------------------------------ the function wrappers
\* The wrappers: CAPEventTracer.wrapHandler (cap-tracing.ts), traceFunction
\* and Traced (otel-dynatrace-setup.ts), traceAsyncFn, traceAsyncFunction
\* and the Trace decorator (tracing.ts).
Wrappers ==
  {"wrapHandler", "traceFunction", "Traced", "traceAsyncFn",
   "traceAsyncFunction", "Trace"}

\* What a wrapped function can do: return one of two values, or throw an
\* Error object, a string, or null / undefined.
Outcomes ==
  { [kind |-> "return", val |-> v] : v \in {"r1", "r2"} } \cup
  { [kind |-> "throw", val |-> e] : e \in {"Error", "text", "nullish"} }

\* The error raised by reading a property of null or undefined.
TypeErrorThrown == [kind |-> "throw", val |-> "TypeError"]

\* A span as startSpan / startActiveSpan returns it.  bodyBegan tells
\* whether the wrapped function had begun to run when the span was started.
WrapSpan(bodyBegan) ==
  [status |-> "UNSET", recorded |-> << >>, ends |-> 0, bodyBegan |-> bodyBegan]

\* The try block after the wrapped function returned v.
tryReturn(span, v) ==
  [span |-> [span EXCEPT !.status = "OK"],
   out |-> [kind |-> "return", val |-> v]]

\* The catch block of wrapHandler: setStatus({code: ERROR, message:
\* error.message}), recordException(error), throw error.  error.message
\* throws when error is null or undefined.
wrapHandlerCatch(span, e) ==
  IF e = "nullish"
    THEN [span |-> span, out |-> TypeErrorThrown]
    ELSE [span |-> [span EXCEPT !.status = "ERROR",
                                !.recorded = Append(@, e)],
          out |-> [kind |-> "throw", val |-> e]]

\* The catch block of traceFunction and of Traced: recordException(error),
\* setStatus({code: ERROR, message: error.message}), throw error.
traceFunctionCatch(span, e) ==
  IF e = "nullish"
    THEN [span |-> [span EXCEPT !.recorded = Append(@, e)],
          out |-> TypeErrorThrown]
    ELSE [span |-> [span EXCEPT !.status = "ERROR",
                                !.recorded = Append(@, e)],
          out |-> [kind |-> "throw", val |-> e]]

\* The catch block of traceAsyncFn, traceAsyncFunction and Trace: the
\* message is error.message only for an Error, "Unknown error" otherwise.
traceAsyncCatch(span, e) ==
  [span |-> [span EXCEPT !.status = "ERROR", !.recorded = Append(@, e)],
   out |-> [kind |-> "throw", val |-> e]]

\* try / catch around the awaited function, then finally { span.end() }.
settle(w, span, outcome) ==
  LET r == IF outcome.kind = "return" THEN tryReturn(span, outcome.val)
           ELSE IF w = "wrapHandler" THEN wrapHandlerCatch(span, outcome.val)
           ELSE IF w \in {"traceFunction", "Traced"}
             THEN traceFunctionCatch(span, outcome.val)
           ELSE traceAsyncCatch(span, outcome.val)
  IN  [span |-> [r.span EXCEPT !.ends = @ + 1], out |-> r.out]

WrapInit ==
  /\ LiveInit
  /\ DiffIdle
  /\ BatchIdle
  /\ wrapper \in Wrappers
  /\ wPc = "idle"
  /\ wCall = NoCall
  /\ wLog = << >>
  /\ wReturned = << >>

\* The wrapped function is called.  Every wrapper but Trace starts its span
\* first and then calls the function inside try.  Trace calls
\* target.apply(this, args) first: a synchronous method runs to its end
\* there and its result (or its exception) goes to the caller with no span;
\* an async method runs up to its first await and hands back a Promise, and
\* only then is the span started.
WrapCall(async, outcome) ==
  /\ wPc = "idle"
  /\ Len(wReturned) < MaxCalls
  /\ IF wrapper = "Trace" /\ ~async
       THEN /\ wReturned' = Append(wReturned,
                              [async |-> async, outcome |-> outcome,
                               span |-> 0, out |-> outcome])
            /\ UNCHANGED <<wPc, wCall, wLog>>
       ELSE /\ wLog' = Append(wLog, WrapSpan(wrapper = "Trace"))
            /\ wCall' = [async |-> async, outcome |-> outcome,
                         span |-> Len(wLog) + 1]
            /\ wPc' = "running"
            /\ UNCHANGED wReturned
  /\ UNCHANGED wrapper
  /\ UNCHANGED liveVars
  /\ UNCHANGED diffVars
  /\ UNCHANGED batchVars

\* The wrapped function runs to its end (its promise settles).
WrapBody ==
  /\ wPc = "running"
  /\ wPc' = "settled"
  /\ UNCHANGED <<wrapper, wCall, wLog, wReturned>>
  /\ UNCHANGED liveVars
  /\ UNCHANGED diffVars
  /\ UNCHANGED batchVars

\* The await in the wrapper resumes: try or catch, then finally, and the
\* wrapper's promise settles for the caller.
WrapSettle ==
  /\ wPc = "settled"
  /\ LET r == settle(wrapper, wLog[wCall.span], wCall.outcome)
     IN  /\ wLog' = [wLog EXCEPT ![wCall.span] = r.span]
         /\ wReturned' = Append(wReturned,
                           [async |-> wCall.async, outcome |-> wCall.outcome,
                            span |-> wCall.span, out |-> r.out])
  /\ wPc' = "idle"
  /\ wCall' = NoCall
  /\ UNCHANGED wrapper
  /\ UNCHANGED liveVars
  /\ UNCHANGED diffVars
  /\ UNCHANGED batchVars

WrapNext ==
  \/ \E async \in BOOLEAN, outcome \in Outcomes :
       WrapCall(async, outcome) /\ UNCHANGED hostVars
  \/ WrapBody /\ UNCHANGED hostVars
  \/ WrapSettle /\ UNCHANGED hostVars

SpecWrap == WrapInit /\ [][WrapNext]_vars

\* ================================================================ claims
\* n is the length of the longest common prefix of p and c.
IsCommonLen(p, c, n) ==
  /\ n <= Len(p)
  /\ n <= Len(c)
  /\ \A i \in 1..n : p[i] = c[i]
  /\ n = Len(p) \/ n = Len(c) \/ p[n + 1] # c[n + 1]

\* ev is Len(p) - n END events naming p from its last frame down to frame
\* n + 1, followed by Len(c) - n START events naming c from frame n + 1 up.
DiffShape(ev, p, c) ==
  \E n \in 0..Len(p) :
    /\ IsCommonLen(p, c, n)
    /\ Len(ev) = (Len(p) - n) + (Len(c) - n)
    /\ \A k \in 1..(Len(p) - n) :
         ev[k].kind = "END" /\ ev[k].name = p[Len(p) - k + 1]
    /\ \A k \in 1..(Len(c) - n) :
         /\ ev[Len(p) - n + k].kind = "START"
         /\ ev[Len(p) - n + k].name = c[n + k]

\* C1: for every pair (prev, curr) the diff emits len(prev) - commonLen END
\* events, innermost frame first, followed by len(curr) - commonLen START
\* events, outermost new frame first; both for one loop iteration of
\* convertSamplesToTrace and for convertSamplesToEvents.
C1_DiffShape ==
  [][/\ tIdx' = tIdx + 1 =>
          DiffShape(SubSeq(tEvents', Len(tEvents) + 1, Len(tEvents')),
                    tPrevStack, tSamples[tIdx + 1].stack)
     /\ dIdx' = dIdx + 1 =>
          DiffShape(dEvents', StackBefore(tSamples, dIdx + 1),
                    tSamples[dIdx + 1].stack)]_vars

\* Both differs have handled a pair that shares its first frame and then
\* diverges, so frames were both closed and opened.
C1_Witness ==
  /\ tIdx = 2
  /\ dIdx = 2
  /\ Len(tSamples[1].stack) = 3
  /\ Len(tSamples[2].stack) = 3
  /\ tSamples[1].stack[1] = tSamples[2].stack[1]
  /\ tSamples[1].stack[2] # tSamples[2].stack[2]
  /\ Len(dEvents) = 4
  /\ Len(tEvents) = 7

\* ------------------------------------------------------------------------
\* The tick that fires in this step runs in context c.
TickOf(c) == now' = now + 1 /\ currentAsyncId = c

\* The tick of this step recorded a sample for c.
RecordedTick(c) == TickOf(c) /\ samples' # samples

\* The last element of a non-empty sequence.
Last(q) == q[Len(q)]

\* Spans started for context c and not ended.
OpenIds(log, c) ==
  { i \in 1..Len(log) : log[i].ctx = c /\ log[i].end = NoTime }

\* The open-span table of context c (empty when c has no entry).
TableOf(active, c) == IF MapHas(active, c) THEN MapGet(active, c) ELSE << >>

\* Name, start and end of the spans of context c started at or after since.
SpanSet(log, c, since) ==
  { [name |-> log[i].name, start |-> log[i].start, end |-> log[i].end] :
      i \in { j \in 1..Len(log) : log[j].ctx = c /\ log[j].start >= since } }

\* C2: a context that receives the filtered samples [A], [A,B], [A], [] at
\* four consecutive ticks t1 < t2 < t3 < t4 ends up with exactly the spans
\* A from t1 to t4 and B from t2 to t3.
C2_RoundTrip ==
  [][\A c \in AsyncIds :
       (/\ c \in DOMAIN samples
        /\ Len(samples[c]) = 3
        /\ samples[c][1].stack = <<"A">>
        /\ samples[c][2].stack = <<"A", "B">>
        /\ samples[c][3].stack = <<"A">>
        /\ samples[c][1].ts = now - 2
        /\ samples[c][2].ts = now - 1
        /\ samples[c][3].ts = now
        /\ TickOf(c)
        /\ samples' = samples)
       => SpanSet(spanLog', c, now - 2) =
            { [name |-> "A", start |-> now - 2, end |-> now + 1],
              [name |-> "B", start |-> now - 1, end |-> now] }]_vars

\* C3: within a context no two spans that are started and not ended were
\* opened at the same stack depth, and no span ends before it starts.
C3_OneOpenSpanPerDepth ==
  /\ \A i, j \in 1..Len(spanLog) :
       (/\ i # j
        /\ spanLog[i].ctx = spanLog[j].ctx
        /\ spanLog[i].end = NoTime
        /\ spanLog[j].end = NoTime)
       => spanLog[i].depth # spanLog[j].depth
  /\ \A i \in 1..Len(spanLog) :
       spanLog[i].end # NoTime => spanLog[i].end >= spanLog[i].start

\* C4: right after a sample of context c has been processed, c has as many
\* open spans as the sample's stack has frames.
C4_OpenSpansMatchStack ==
  [][\A c \in AsyncIds :
       RecordedTick(c) =>
         Cardinality(OpenIds(spanLog', c)) = Len(Last(samples'[c]).stack)]_vars

\* Context c holds no sampler state: it was torn down or never sampled.
NoState(c) == c \notin DOMAIN samples /\ ~MapHas(activeSpans, c)

\* C5: once a span's context has been torn down, or the sampler stopped, the
\* span has been ended exactly once; and a span opened deeper in the same
\* context, while the enclosing span was open, ends no later than it.
C5_EndedExactlyOnce ==
  /\ \A i \in 1..Len(spanLog) :
       (NoState(spanLog[i].ctx) \/ ~enabled) => spanLog[i].ends = 1
  /\ \A i \in 1..Len(spanLog) : spanLog[i].ends <= 1
  /\ \A i, j \in 1..Len(spanLog) :
       (/\ spanLog[i].ctx = spanLog[j].ctx
        /\ spanLog[i].depth < spanLog[j].depth
        /\ spanLog[i].start <= spanLog[j].start
        /\ spanLog[i].end # NoTime
        /\ spanLog[j].start < spanLog[i].end)
       => (spanLog[j].end # NoTime /\ spanLog[j].end <= spanLog[i].end)

\* The step left c without table and samples and ended c's open spans now.
TornDownClean(c) ==
  /\ ~MapHas(activeSpans', c)
  /\ c \notin DOMAIN samples'
  /\ \A i \in OpenIds(spanLog, c) : spanLog'[i].end = now

\* C6: after flushAsyncContext(c), from the destroy hook or from stop(), c
\* has no open-span table and no sample history, and every span of c that
\* was open has been ended at the teardown time.
C6_TeardownComplete ==
  [][/\ \A c \in AsyncIds : HookDestroy(c) => TornDownClean(c)
     /\ (Stop /\ enabled) =>
          \A c \in AsyncIds : MapHas(activeSpans, c) => TornDownClean(c)]_vars

\* C7: after stop() no context has an open span, an open-span table or a
\* sample history, so nothing captured before the stop can be the previous
\* stack of a diff after a later start().
C7_StopTearsDownAll ==
  ~enabled =>
    /\ DOMAIN samples = {}
    /\ activeSpans = << >>
    /\ \A i \in 1..Len(spanLog) : spanLog[i].end # NoTime

\* The interval field and the host's timers agree with enabled.
OneTimerWhileEnabled ==
  /\ Cardinality(timers) <= 1
  /\ (timers # {}) <=> enabled
  /\ enabled <=> (interval # NoTimer /\ timers = {interval})

\* C8: at most one interval timer is active, one is active exactly when the
\* sampler is enabled, and a start() while running changes neither the
\* timers nor any sample history nor any span.
C8_StartIdempotent ==
  [][/\ OneTimerWhileEnabled
     /\ OneTimerWhileEnabled'
     /\ (Start /\ enabled) =>
          UNCHANGED <<enabled, hookEnabled, interval, timers, samples,
                      activeSpans, spanLog, endLog, currentAsyncId>>]_vars

\* start() was called again while a context had samples and an open span.
C8_Witness ==
  /\ startedAgain
  /\ enabled
  /\ Cardinality(timers) = 1
  /\ \E c \in DOMAIN samples :
       Len(samples[c]) >= 2 /\ Len(TableOf(activeSpans, c)) >= 1

\* C9: a stack diffed against itself yields no event, and a sample equal to
\* the context's previous sample starts no span, ends no span and leaves the
\* context's open spans as they were.
C9_IdenticalSampleNoEvents ==
  [][\A c \in AsyncIds :
       (/\ RecordedTick(c)
        /\ c \in DOMAIN samples
        /\ Last(samples'[c]).stack = Last(samples[c]).stack)
       => /\ \A s \in StacksUpTo(MaxLen) :
               convertSamplesToEvents(s, s, now') = << >>
          /\ convertSamplesToEvents(Last(samples[c]).stack,
                                    Last(samples'[c]).stack, now') = << >>
          /\ spanLog' = spanLog
          /\ endLog' = endLog
          /\ TableOf(activeSpans', c) = TableOf(activeSpans, c)]_vars

\* A context with an open span received the same stack twice in a row.
C9_Witness ==
  \E c \in DOMAIN samples :
    /\ Len(samples[c]) >= 3
    /\ Last(samples[c]).stack = samples[c][Len(samples[c]) - 1].stack
    /\ Last(samples[c]).ts = now
    /\ Len(TableOf(activeSpans, c)) >= 1
    /\ OpenIds(spanLog, c) # {}

\* The part of the state that belongs to context d.
ContextState(smp, active, log, d) ==
  <<IF d \in DOMAIN smp THEN smp[d] ELSE << >>,
    d \in DOMAIN smp,
    TableOf(active, d),
    MapHas(active, d),
    [i \in { j \in 1..Len(log) : log[j].ctx = d } |-> log[i]]>>

\* The names of the spans the step started, in start order.
StartedNames == [k \in 1..(Len(spanLog') - Len(spanLog)) |->
                   spanLog'[Len(spanLog) + k].name]

\* C10: a tick of context c and a teardown of c leave the samples, the open
\* spans and the spans of every other context unchanged, and the spans a
\* tick starts are the frames of the new stack beyond its common prefix
\* with c's own preceding sample.
C10_ContextIsolation ==
  [][\A c \in AsyncIds :
       /\ (TickOf(c) \/ HookDestroy(c)) =>
            \A d \in AsyncIds \ {c} :
              ContextState(samples', activeSpans', spanLog', d)
                = ContextState(samples, activeSpans, spanLog, d)
       /\ (RecordedTick(c) /\ c \in DOMAIN samples) =>
            /\ \A k \in (Len(spanLog) + 1)..Len(spanLog') :
                 spanLog'[k].ctx = c
            /\ \E n \in 0..Len(Last(samples[c]).stack) :
                 /\ IsCommonLen(Last(samples[c]).stack,
                                Last(samples'[c]).stack, n)
                 /\ StartedNames =
                      SubSeq(Last(samples'[c]).stack, n + 1,
                             Len(Last(samples'[c]).stack))]_vars

\* Two contexts were sampled in turn, each holds an open span, and the one
\* sampled last started a span while the other's span stayed open.
C10_Witness ==
  \E c, d \in AsyncIds :
    /\ c # d
    /\ c \in DOMAIN samples
    /\ d \in DOMAIN samples
    /\ Len(samples[c]) >= 2
    /\ Len(samples[d]) >= 2
    /\ Last(samples[c]).ts = now
    /\ samples[c][1].ts < Last(samples[d]).ts
    /\ Last(samples[c]).stack # Last(samples[d]).stack
    /\ \E i \in OpenIds(spanLog, c) : spanLog[i].start = now
    /\ \E j \in OpenIds(spanLog, d) : spanLog[j].start < now
    /\ Len(TableOf(activeSpans, d)) >= 1

\* ------------------------------------------------------------------------
\* The events the sequence of Example 1 is documented to produce, and how
\* many of them exist once k samples have been handled.
Example1Events ==
  << [kind |-> "START", ts |-> 75, name |-> "main"],
     [kind |-> "START", ts |-> 91, name |-> "my_fn"],
     [kind |-> "START", ts |-> 91, name |-> "my_fn2"],
     [kind |-> "END", ts |-> 93, name |-> "my_fn2"],
     [kind |-> "END", ts |-> 93, name |-> "my_fn"],
     [kind |-> "START", ts |-> 93, name |-> "my_fn2"],
     [kind |-> "START", ts |-> 93, name |-> "my_fn"],
     [kind |-> "END", ts |-> 107, name |-> "my_fn"],
     [kind |-> "END", ts |-> 107, name |-> "my_fn2"] >>

Example1Count == [k \in 0..4 |-> IF k = 0 THEN 0 ELSE <<1, 3, 7, 9>>[k]]

\* C11: for the samples (7.5,[main]), (9.1,[main,fn1,fn2]),
\* (9.3,[main,fn2,fn1]), (10.7,[main]) the events are, in order, START main
\* at 7.5 (main was not open); START fn1, START fn2 at 9.1; END fn2, END fn1,
\* START fn2, START fn1 at 9.3; END fn1, END fn2 at 10.7; and nothing else.
\* convertSamplesToEvents returns the same batch for each consecutive pair.
C11_ExampleEvents ==
  tSamples = Example1 =>
    /\ tEvents = SubSeq(Example1Events, 1, Example1Count[tIdx])
    /\ dIdx > 0 =>
         dEvents = SubSeq(Example1Events, Example1Count[dIdx - 1] + 1,
                          Example1Count[dIdx])

\* Both differs have consumed the four samples of Example 1.
C11_Witness ==
  /\ tSamples = Example1
  /\ tIdx = 4
  /\ dIdx = 4
  /\ Len(tEvents) = 9
  /\ Len(dEvents) = 2

\* ------------------------------------------------------------------------
\* The frames of p beyond the first n, i.e. the names the END events carry.
EndedNames(p, n) == { p[k] : k \in (n + 1)..Len(p) }

\* Some END event of the diff from p with common prefix n finds no span in
\* table: either its name has no entry, or the name occurs twice among the
\* END events and the one entry is gone when the second arrives.
SomeEndUnmatched(table, p, n) ==
  \E k \in (n + 1)..Len(p) :
    \/ ~MapHas(table, p[k])
    \/ \E j \in (n + 1)..Len(p) : j # k /\ p[j] = p[k]

\* C12: an END event for a context with no matching open span is a silent
\* no-op: the batch still runs to its end (every START of the batch is
\* applied), exactly the spans whose names the END events match are ended,
\* once each and at the tick's time, and no other span of this or any other
\* context is ended or changed.
C12_UnmatchedEndNoOp ==
  [][\A c \in AsyncIds :
       (RecordedTick(c) /\ c \in DOMAIN samples) =>
         LET p == Last(samples[c]).stack
             s == Last(samples'[c]).stack
             n == commonLenFrom(p, s, 0)
             table == TableOf(activeSpans, c)
             matched == { MapGet(table, x) :
                            x \in { y \in EndedNames(p, n) : MapHas(table, y) } }
         IN  SomeEndUnmatched(table, p, n) =>
               /\ StartedNames = SubSeq(s, n + 1, Len(s))
               /\ Len(endLog') = Len(endLog) + Cardinality(matched)
               /\ \A i \in 1..Len(spanLog) :
                    spanLog'[i] =
                      IF i \in matched
                        THEN [spanLog[i] EXCEPT !.end = now', !.ends = 1]
                        ELSE spanLog[i]
               /\ \A e \in 1..Len(table) :
                    table[e].key \notin EndedNames(p, n) \union
                                        { s[k] : k \in (n + 1)..Len(s) }
                      => \E f \in 1..Len(TableOf(activeSpans', c)) :
                           TableOf(activeSpans', c)[f] = table[e]
               /\ \A d \in AsyncIds \ {c} :
                    TableOf(activeSpans', d) = TableOf(activeSpans, d)]_vars

\* A context's second sample [B,B] followed its first sample [A]: the END
\* for A found no span (the first sample opens none), and the two START
\* events after it were applied.
C12_Witness ==
  \E c \in DOMAIN samples :
    /\ Len(samples[c]) = 2
    /\ samples[c][1].stack = <<"A">>
    /\ samples[c][2].stack = <<"B", "B">>
    /\ samples[c][2].ts = now
    /\ Cardinality({ i \in 1..Len(spanLog) :
                       spanLog[i].ctx = c /\ spanLog[i].start = now }) = 2
    /\ \A i \in 1..Len(spanLog) : spanLog[i].name # "A"

\* C13: tearing down a context that was never sampled, or that has been
\* torn down already, changes nothing: no sample history, no open-span
\* table, no span and no end is added, removed or altered.
C13_UnknownTeardownNoOp ==
  [][\A c \in AsyncIds :
       (HookDestroy(c) /\ NoState(c)) =>
         UNCHANGED <<samples, activeSpans, spanLog, endLog, enabled,
                     hookEnabled, interval, timers, currentAsyncId, now>>]_vars

\* Context c has been sampled and torn down (its span is ended, it holds
\* no state) while the hook is still enabled and another context holds an
\* open span: a destroy of c from here is a teardown of a torn-down context.
C13_Witness ==
  /\ hookEnabled
  /\ \E c, d \in AsyncIds :
       /\ c # d
       /\ NoState(c)
       /\ \E i \in 1..Len(spanLog) :
            spanLog[i].ctx = c /\ spanLog[i].end # NoTime
       /\ OpenIds(spanLog, d) # {}
       /\ d \in DOMAIN samples

\* ------------------------------------------------------------------------
\* The call graph is a tree rooted at node 1: every other node is the child
\* of exactly one node, once, and the root of none.
IsTree(ch) ==
  /\ \A n \in DOMAIN ch : \A k \in 1..Len(ch[n]) : ch[n][k] \in DOMAIN ch \ {1}
  /\ \A n \in (DOMAIN ch) \ {1} :
       Cardinality({ <<p, k>> \in (DOMAIN ch) \X (1..3) :
                       k <= Len(ch[p]) /\ ch[p][k] = n }) = 1
  /\ \A n \in DOMAIN ch : \A k \in 1..Len(ch[n]) : ch[n][k] > n

\* A profile as the reconstruction expects it: a tree, every sampled id a
\* node of it, one time delta per tick.
WellFormed(pr) ==
  /\ IsTree(pr.children)
  /\ \A i \in 1..Len(pr.samples) : pr.samples[i] \in DOMAIN pr.children
  /\ Len(pr.timeDeltas) = Len(pr.samples)

\* The name a node is shown under.
ShownName(pr, n) == IF pr.names[n] = "" THEN "(anonymous)" ELSE pr.names[n]

\* The names on the path from the root of a tree down to node n.
RECURSIVE PathNames(_, _)
PathNames(pr, n) ==
  IF n = 1 THEN <<ShownName(pr, 1)>>
  ELSE LET p == CHOOSE q \in DOMAIN pr.children :
                  \E k \in 1..Len(pr.children[q]) : pr.children[q][k] = n
       IN  Append(PathNames(pr, p), ShownName(pr, n))

\* td[1] + ... + td[i]
RECURSIVE SumTo(_, _)
SumTo(td, i) == IF i = 0 THEN 0 ELSE SumTo(td, i - 1) + td[i]

\* C14: for every well-formed profile, nodes listing their children as node
\* ids included, the reconstruction fails with no error and produces for
\* each tick i exactly one sample, whose stack is the path from the root to
\* samples[i], outermost first, and whose time is startTime plus the sum of
\* timeDeltas[0..i].
C14_SamplesFromProfile ==
  WellFormed(profile) =>
    /\ bPc \notin {"TypeError", "RangeError"}
    /\ \A i \in 1..Len(bSamples) :
         /\ bSamples[i].stack = PathNames(profile, profile.samples[i])
         /\ bSamples[i].ts = profile.startTime + SumTo(profile.timeDeltas, i)
    /\ bPc = "done" => Len(bSamples) = Len(profile.samples)

\* ------------------------------------------------------------------------
\* The call ran to its end or produced something.
Produced == bPc = "done" \/ bSamples # << >> \/ spanLog # << >>

\* C15: when profile.samples holds a node id that is not in the call graph
\* the whole reconstruction fails: the call does not complete, and no
\* sample and no span is produced.
C15_UnknownNodeRejected ==
  (/\ IsTree(profile.children)
   /\ Len(profile.timeDeltas) = Len(profile.samples)
   /\ \E i \in 1..Len(profile.samples) :
        profile.samples[i] \notin DOMAIN profile.children)
  => ~Produced

\* C16: when profile.samples and profile.timeDeltas differ in length the
\* reconstruction fails: the call does not complete, and no sample and no
\* span is produced.
C16_LengthMismatchRejected ==
  (/\ IsTree(profile.children)
   /\ \A i \in 1..Len(profile.samples) :
        profile.samples[i] \in DOMAIN profile.children
   /\ Len(profile.samples) # Len(profile.timeDeltas))
  => ~Produced

\* Some node of the graph is reachable from itself.
HasCycle(ch) ==
  LET Kids(n) == { ch[n][k] : k \in 1..Len(ch[n]) }
      Grow(S) == S \cup UNION { Kids(n) : n \in S \cap DOMAIN ch }
      Reach(n) == Grow(Grow(Grow(Kids(n))))
  IN  \E n \in DOMAIN ch : n \in Reach(n)

\* C17: when the call graph has a cycle the reconstruction stops by itself
\* and fails as an invalid profile: the traversal from the root enters no
\* node a second time while it is still inside it, it does not run until
\* the host's stack is exhausted, and no sample and no span is produced.
C17_CycleRejected ==
  HasCycle(profile.children) =>
    /\ \A i, j \in 1..Len(callStack) :
         i # j => callStack[i].node # callStack[j].node
    /\ bPc # "RangeError"
    /\ ~Produced

\* The frames of a stack that are not the root frame.
Surviving(stack) ==
  LET keep(name) == name # "(root)" IN SelectSeq(stack, keep)

C19_ParentIsEnclosingSpan ==
  \A i \in 1..Len(spanLog) :
    LET sp == spanLog[i] IN
    IF sp.depth = 0
      THEN sp.parent \notin 1..Len(spanLog)
      ELSE /\ sp.parent \in 1..Len(spanLog)
           /\ spanLog[sp.parent].ctx = sp.ctx
           /\ spanLog[sp.parent].depth = sp.depth - 1
           /\ spanLog[sp.parent].start <= sp.start
           /\ \/ spanLog[sp.parent].ends = 0
              \/ spanLog[sp.parent].end >= sp.start

\* The positions of raw whose frame name no exclude pattern matches.
KeptAt(raw) ==
  { i \in 1..Len(raw) :
      \A pattern \in excludePatterns : ~PatternTest(pattern, raw[i]) }

\* stack lists the kept frames of raw, each once, in the order of raw.
IsFiltered(stack, raw) ==
  /\ Len(stack) = Cardinality(KeptAt(raw))
  /\ \A i \in KeptAt(raw) :
       stack[Cardinality({ j \in KeptAt(raw) : j <= i })] = raw[i]

C21_SameProfileSameResult ==
  (WellFormed(profile) /\ firstRun.returned /\ BatchOver) =>
    /\ bPc = firstRun.pc
    /\ bSamples = firstRun.samples
    /\ endLog = firstRun.ends
    /\ spanLog = firstRun.log

\* ------------------------------------------------------------------------
\* Finished call k got its own span, started before the function ran and
\* ended once; the caller got the function's value with status OK, or the
\* function's own exception after status ERROR and recordException.
WrappedProperly(k) ==
  LET c == wReturned[k] IN
  /\ c.span \in 1..Len(wLog)
  /\ \A j \in 1..Len(wReturned) : j # k => wReturned[j].span # c.span
  /\ ~wLog[c.span].bodyBegan
  /\ wLog[c.span].ends = 1
  /\ c.out = c.outcome
  /\ c.outcome.kind = "return" =>
       wLog[c.span].status = "OK" /\ wLog[c.span].recorded = << >>
  /\ c.outcome.kind = "throw" =>
       /\ wLog[c.span].status = "ERROR"
       /\ wLog[c.span].recorded = <<c.outcome.val>>

\* C22: every wrapper (wrapHandler, traceFunction, Traced, traceAsyncFn,
\* traceAsyncFunction) starts one span per call before the wrapped function
\* runs and ends it exactly once on every exit path; on return the caller
\* gets the function's result and the status is OK, on failure the same
\* error is re-thrown after status ERROR is set and the exception recorded.
C22_WrappersCloseSpan ==
  wrapper \in Wrappers \ {"Trace"} =>
    /\ \A k \in 1..Len(wReturned) : WrappedProperly(k)
    /\ wPc # "idle" =>
         /\ wCall.span = Len(wLog)
         /\ wLog[wCall.span].ends = 0
         /\ ~wLog[wCall.span].bodyBegan
    /\ \A i \in 1..Len(wLog) : wLog[i].ends <= 1

\* C29: a method wrapped by the Trace decorator gets exactly one span per
\* call, synchronous or asynchronous; the span is started before the method
\* body begins to run and ended, once, after the method completed or failed.
C29_TraceSpanPerCall ==
  wrapper = "Trace" =>
    /\ Len(wLog) = Len(wReturned) + (IF wPc = "idle" THEN 0 ELSE 1)
    /\ \A k \in 1..Len(wReturned) :
         /\ wReturned[k].span \in 1..Len(wLog)
         /\ wLog[wReturned[k].span].ends = 1
         /\ ~wLog[wReturned[k].span].bodyBegan
    /\ \A i \in 1..Len(wLog) : ~wLog[i].bodyBegan

\* ------------------------------------------------------------------------
\* C23: the first sample recorded for a context (none before it, or none
\* since the context was torn down) is diffed against the empty stack: the
\* tick starts one span per frame of the stack, outermost first, at the
\* sample's time, and ends none.
C23_FirstSampleOpensAll ==
  [][\A c \in AsyncIds :
       (RecordedTick(c) /\ c \notin DOMAIN samples) =>
         /\ StartedNames = Last(samples'[c]).stack
         /\ \A k \in (Len(spanLog) + 1)..Len(spanLog') :
              /\ spanLog'[k].ctx = c
              /\ spanLog'[k].start = now'
              /\ spanLog'[k].end = NoTime
         /\ endLog' = endLog]_vars

\* C24: a tick whose stack is empty after filtering, in a context that has
\* open spans, is processed as a sample with the empty stack: the context's
\* history gets that sample, and every span open for the context is ended
\* at the tick's time.
C24_EmptyStackEndsAll ==
  [][\A c \in AsyncIds, raw \in RawStacks :
       (/\ TickOf(c)
        /\ Tick(raw)
        /\ KeptAt(raw) = {}
        /\ OpenIds(spanLog, c) # {}) =>
         /\ c \in DOMAIN samples'
         /\ Last(samples'[c]).stack = << >>
         /\ Last(samples'[c]).ts = now'
         /\ \A i \in OpenIds(spanLog, c) : spanLog'[i].end = now'
         /\ OpenIds(spanLog', c) = {}]_vars

\* The sequence q back to front.
Reverse(q) == [k \in 1..Len(q) |-> q[Len(q) - k + 1]]

\* C25: the stack stored in a live sample is ordered outer to inner: it is
\* the reverse of the surviving frames in the innermost-first order in
\* which the runtime reports the stack lines.
C25_StoredOuterToInner ==
  [][\A raw \in RawStacks :
       (Tick(raw) /\ samples' # samples) =>
         LET stack == Last(samples'[currentAsyncId]).stack
         IN  /\ IsFiltered(Reverse(stack), raw)
             /\ stack = Reverse(filterNames(raw))]_vars

\* ------------------------------------------------------------------------
\* C26: the events of one diff all carry the timestamp of the newer sample,
\* and every span started or ended while that sample is processed has it as
\* its start or end time: in the live sampler the sample's ts, in the batch
\* pass the HrTime of the sample's ts.
C26_OneTimestampPerDiff ==
  [][/\ \A c \in AsyncIds :
          (RecordedTick(c) /\ Len(samples'[c]) >= 2) =>
            LET s == samples'[c]
                ts == Last(s).ts
                ev == convertSamplesToEvents(s[Len(s) - 1].stack,
                                             Last(s).stack, ts)
            IN  /\ ts = now'
                /\ \A k \in DOMAIN ev : ev[k].ts = ts
                /\ \A i \in (Len(spanLog) + 1)..Len(spanLog') :
                     spanLog'[i].start = ts
                /\ \A i \in 1..Len(spanLog) :
                     spanLog'[i].ends # spanLog[i].ends =>
                       spanLog'[i].end = ts
     /\ (bPc = "run" /\ bIdx' = bIdx + 1) =>
          LET hr == millisecondsToHrTime(bSamples[bIdx'].ts)
          IN  /\ \A i \in (Len(spanLog) + 1)..Len(spanLog') :
                   spanLog'[i].start = hr
              /\ \A i \in 1..Len(spanLog) :
                   spanLog'[i].ends # spanLog[i].ends =>
                     spanLog'[i].end = hr]_vars

\* A context whose newest sample both ended a span and started another.
C26_Witness ==
  \E c \in DOMAIN samples :
    /\ Len(samples[c]) >= 2
    /\ Last(samples[c]).ts > samples[c][Len(samples[c]) - 1].ts
    /\ \E i, j \in 1..Len(spanLog) :
         /\ spanLog[i].ctx = c /\ spanLog[j].ctx = c
         /\ spanLog[i].ends = 1
         /\ spanLog[i].end = Last(samples[c]).ts
         /\ spanLog[i].start < Last(samples[c]).ts
         /\ spanLog[j].start = Last(samples[c]).ts

\* ------------------------------------------------------------------------
\* C27: the sample a tick records is filed under the id of the context
\* whose callback the host ran last before the tick fired (so two
\* interleaved contexts get two ids): never under the id of the sampler's
\* own Timeout, and never under the id of a resource that has run no
\* callback.
C27_SampleUnderRunningContext ==
  [][\A raw \in RawStacks :
       (Tick(raw) /\ samples' # samples /\ host.last # 0) =>
         LET id == Last(samples'[currentAsyncId]).asyncId
         IN  /\ id # host.timer
             /\ id \in host.ran
             /\ id = host.last]_vars

\* ------------------------------------------------------------------------
\* C30: when span.end() raises an error while the events of a tick are
\* applied, the bookkeeping advances as if the span had closed: the open-span
\* table of the context is what the same events leave when no call fails
\* (the span removed, the remaining events applied, their spans started),
\* and the sampler keeps ticking.
C30_EndFailureAdvances ==
  [][\A raw \in RawStacks, ended \in BOOLEAN :
       HostTimerTickFails(raw, ended) =>
         LET good == processSamples(Tr, samples', currentAsyncId)
         IN  /\ activeSpans' = good.active
             /\ Len(spanLog') = Len(good.log)
             /\ timers' # {}
             /\ host'.alive]_vars

\* ------------------------------------------------------------------------
\* C28: every invocation of a before / after / on handler of a served
\* service produces a span named phase:event:entity, whether the handler
\* was registered before the service was instrumented (in init()) or after.
C28_EveryHandlerTraced ==
  \A i \in 1..Len(service.calls) :
    LET h == service.handlers[service.calls[i].handler]
    IN  service.calls[i].span = spanNameOf(h.phase, h.event, h.entity)

\* ------------------------------------------------------------------------
\* Replaying events[i..] on stack: START pushes the name, END pops; ok
\* turns false when an END finds the stack empty or another name on top.
RECURSIVE replay(_, _, _, _)
replay(events, i, stack, ok) ==
  IF i > Len(events) THEN [stack |-> stack, ok |-> ok]
  ELSE IF events[i].kind = "START"
    THEN replay(events, i + 1, Append(stack, events[i].name), ok)
  ELSE IF Len(stack) = 0
    THEN replay(events, i + 1, stack, FALSE)
  ELSE replay(events, i + 1, SubSeq(stack, 1, Len(stack) - 1),
              ok /\ stack[Len(stack)] = events[i].name)

\* The number of events of a kind.
CountKind(events, kind) ==
  Cardinality({ k \in 1..Len(events) : events[k].kind = kind })

\* C34: replaying the events convertSamplesToTrace has produced, on an
\* initially empty stack, never pops an empty stack, every END names the
\* frame on top, after the events of sample k the stack is sample k's
\* stack, and STARTs minus ENDs is the length of that stack.
C34_ReplayRebuildsStacks ==
  LET r == replay(tEvents, 1, << >>, TRUE)
      reached == IF tIdx = 0 THEN << >> ELSE tSamples[tIdx].stack
  IN  /\ r.ok
      /\ r.stack = reached
      /\ CountKind(tEvents, "START") - CountKind(tEvents, "END")
           = Len(reached)

\* A whole list converted whose second sample both closed and opened
\* frames under a frame that stays.
C34_Witness ==
  /\ Len(tSamples) = 2
  /\ tIdx = 2
  /\ Len(tSamples[1].stack) >= 2
  /\ Len(tSamples[2].stack) >= 2
  /\ tSamples[1].stack[1] = tSamples[2].stack[1]
  /\ tSamples[1].stack[2] # tSamples[2].stack[2]
  /\ CountKind(tEvents, "END") >= 1

\* ------------------------------------------------------------------------
\* C36: for a whole number ms >= 0 of milliseconds, millisecondsToHrTime(ms)
\* is [s, n] with s = ms div 1000, n = (ms mod 1000) * 10^6 and
\* 0 <= n < 10^9, so that s * 10^9 + n = ms * 10^6 (stated in units of
\* 10^6 ns: n is a multiple of 10^6 and s * 1000 + n / 10^6 = ms).
C36_HrTimeOfWholeMs ==
  hrCall.called =>
    LET s == hrCall.out[1]
        n == hrCall.out[2]
    IN  /\ s = hrCall.ms \div 1000
        /\ n = (hrCall.ms % 1000) * 1000000
        /\ 0 <= n /\ n < 1000000000
        /\ n % 1000000 = 0
        /\ s * 1000 + n \div 1000000 = hrCall.ms

\* A value of more than a second with a millisecond part was converted.
C36_Witness ==
  /\ hrCall.called
  /\ hrCall.ms = 1999
  /\ hrCall.out = <<1, 999000000>>

\* ------------------------------------------------------------------------
\* The calls of initCAPTracing among the first n calls logged.
InitCalls(n) == { i \in 1..n : mgrLog[i].fn = "initCAPTracing" }

\* C35: initCAPTracing returns the same manager on every call; the manager
\* is the one built from the options of the first call, whatever options
\* later calls pass; getCAPTracing returns null before the first
\* initCAPTracing and that manager afterwards.
C35_SingleManager ==
  /\ \A i \in 1..Len(mgrLog) :
       IF InitCalls(i) = {}
         THEN mgrLog[i].got = 0
         ELSE LET first == CHOOSE f \in InitCalls(i) :
                             \A g \in InitCalls(i) : f <= g
              IN  /\ mgrLog[i].got # 0
                  /\ mgrLog[i].got = mgrLog[first].got
  /\ IF InitCalls(Len(mgrLog)) = {}
       THEN tracingManager = NoManager
       ELSE LET first == CHOOSE f \in InitCalls(Len(mgrLog)) :
                           \A g \in InitCalls(Len(mgrLog)) : f <= g
            IN  tracingManager =
                  CAPTracingManager(mgrLog[first].got, mgrLog[first].options)

\* getCAPTracing before any initCAPTracing, two initCAPTracing calls with
\* different options, then getCAPTracing again.
C35_Witness ==
  /\ Len(mgrLog) = 4
  /\ mgrLog[1].fn = "getCAPTracing"
  /\ mgrLog[2].fn = "initCAPTracing"
  /\ mgrLog[3].fn = "initCAPTracing"
  /\ mgrLog[4].fn = "getCAPTracing"
  /\ mgrLog[2].options.samplingIntervalMs # mgrLog[3].options.samplingIntervalMs
  /\ mgrLog[2].options.enableStackSampling
       # mgrLog[3].options.enableStackSampling
  /\ mgrLog[4].got = mgrLog[2].got

\* ------------------------------------------------------------------------
\* C31: the flags are honoured: with a manager built with
\* enableStackSampling false no sampling timer is ever set and no tick
\* runs, and with one built with enableEventTracing false the service's
\* before / after / on are never replaced by wrapping ones.
C31_FlagsHonoured ==
  /\ tracingManager.options.enableStackSampling = "false" =>
       /\ timers = {}
       /\ now = 0
       /\ samples = << >>
  /\ tracingManager.options.enableEventTracing = "false" =>
       ~service.wrapped

\* ------------------------------------------------------------------------
\* C32: stop() is immediate: while the sampler is stopped no tick is
\* processed, no sample is recorded, no span is started and no teardown
\* runs, and the stop() call itself has closed every span that was open.
C32_StopImmediate ==
  [][/\ (~enabled /\ ~enabled') =>
          /\ now' = now
          /\ samples' = samples
          /\ activeSpans' = activeSpans
          /\ spanLog' = spanLog
          /\ endLog' = endLog
     /\ (enabled /\ ~enabled') =>
          /\ timers' = {}
          /\ ~hookEnabled'
          /\ Len(spanLog') = Len(spanLog)
          /\ \A i \in 1..Len(spanLog') : spanLog'[i].end # NoTime]_vars

\* ------------------------------------------------------------------------
\* C33: in processProfileToSpans on a well-formed profile, no span is ever
\* ended twice and when the function returns every span started has been
\* ended once; a depth key of activeSpans is given a new span only when
\* the span it held has been ended; and a span closed while a tick is
\* processed is ended at that tick's timestamp.
C33_BatchSpansEndOnce ==
  [][WellFormed(profile) =>
       /\ \A i \in 1..Len(spanLog') : spanLog'[i].ends <= 1
       /\ (bPc = "run" /\ bPc' = "done") =>
            \A i \in 1..Len(spanLog') : spanLog'[i].ends = 1
       /\ (bPc = "run" /\ bIdx' = bIdx + 1) =>
            /\ \A k \in 1..Len(bActive) :
                 LET key == bActive[k].key
                 IN  (MapHas(bActive', key)
                        /\ MapGet(bActive', key) # bActive[k].val) =>
                       spanLog'[bActive[k].val].ends = 1
            /\ \A i \in 1..Len(spanLog) :
                 spanLog'[i].ends # spanLog[i].ends =>
                   spanLog'[i].end = millisecondsToHrTime(bSamples[bIdx'].ts)
      ]_vars

\* A call that has returned, in which the span of a depth was closed by a
\* later tick at that tick's time, the depth was given to another span,
\* and that span was closed by the cleanup.
C33_Witness ==
  /\ bPc = "done"
  /\ WellFormed(profile)
  /\ \E i, j \in 1..Len(spanLog) :
       /\ i < j
       /\ spanLog[i].depth = spanLog[j].depth
       /\ spanLog[i].ends = 1
       /\ spanLog[j].ends = 1
       /\ spanLog[i].end = spanLog[j].start
       /\ endLog = <<i, j>>

====
